---- MODULE Spec2Model ----
(***************************************************************************)
(* The 8-bit CPU toolchain: the VM interpreter (main.py, CPU8Bit), the     *)
(* two-pass assembler (compil.py, assemble_text) and the calling           *)
(* convention part of the HighLang code generator (minic.py, Codegen).     *)
(*                                                                         *)
(* A VM run starts from the state CPU8Bit.__init__ builds from a byte      *)
(* image.  The images are the assembler's output for bounded families of   *)
(* assembly texts (some of them the code generator's output for bounded    *)
(* HighLang programs) and a few raw images with code in the last bytes of  *)
(* memory.  One action per opcode handler of CPU8Bit.run.                  *)
(***************************************************************************)
EXTENDS Integers, Sequences, FiniteSets, TLC

VARIABLES
    PC,        \* self.PC
    SC,        \* self.SC, the stack pointer
    reg,       \* self.reg, 8 registers
    Z,         \* self.Z
    C,         \* self.C
    memory,    \* self.memory: the bytes that differ from 0 or were written
    ports,     \* self.ports, 8 ports
    status,    \* "run", "halt" (the loop's break) or the exception raised
    count,     \* run()'s counter of retired instructions
    log,       \* what dump_state printed, one entry per retired instruction
    input,     \* the program the image was built from
    console    \* the console thread: its widget, its text, the keys pressed

vars == <<PC, SC, reg, Z, C, memory, ports, status, count, log, input, console>>

\* ------------------------------------------------------------ constants

MEM_SIZE == 65536
STACK_START == 65488
STACK_END == 65519
NREGS == 8
NPORTS == 8

\* ------------------------------------------------------------ bounds

\* Most retired instructions of one run (run() itself never stops counting).
MaxSteps == 110
\* Byte operands are drawn from 0..MaxByte, 127, 128 and 255-MaxByte..255.
MaxByte == 1
\* Stack depths before a stack body: 0..MaxDepth and (30-MaxDepth)..31 bytes.
MaxDepth == 1
\* Most keys pressed on the console during one run.
MaxKeys == 1
\* Most byte values on one "$" line of a re-emitted image.
DataPerLine == 8

\* ------------------------------------------------------------ arithmetic

RECURSIVE Pow2(_)
Pow2(n) == IF n = 0 THEN 1 ELSE 2 * Pow2(n - 1)

\* Python's a & b, a | b, a ^ b on non-negative integers below 2^n.
RECURSIVE BitAndN(_, _, _)
BitAndN(a, b, n) ==
    IF n = 0 THEN 0
    ELSE 2 * BitAndN(a \div 2, b \div 2, n - 1)
         + (IF a % 2 = 1 /\ b % 2 = 1 THEN 1 ELSE 0)

RECURSIVE BitOrN(_, _, _)
BitOrN(a, b, n) ==
    IF n = 0 THEN 0
    ELSE 2 * BitOrN(a \div 2, b \div 2, n - 1)
         + (IF a % 2 = 1 \/ b % 2 = 1 THEN 1 ELSE 0)

RECURSIVE BitXorN(_, _, _)
BitXorN(a, b, n) ==
    IF n = 0 THEN 0
    ELSE 2 * BitXorN(a \div 2, b \div 2, n - 1)
         + (IF (a % 2) # (b % 2) THEN 1 ELSE 0)

\* x & 0xFF and x & 0xFFFF for any Python int (two's complement: floor mod).
And8(x) == x % 256
And16(x) == x % 65536

\* ((hi << 8) | lo) & 0xFFFF for bytes hi, lo.
Word(hi, lo) == And16(hi * 256 + lo)

\* ------------------------------------------------------------ VM state

\* self.memory[a]: the image padded with zeros.
Mem(a) == IF a \in DOMAIN memory THEN memory[a] ELSE 0

\* self.memory[a] = v
MemSet(m, a, v) == (a :> v) @@ m

\* self.memory[self.PC + k]: an IndexError past the end of the list.
FetchOK(n) == PC + n < MEM_SIZE
Op(k) == Mem(PC + k)

\* self.reg[r]: an IndexError outside the list of 8.
RegOK(r) == r \in 0 .. (NREGS - 1)

\* The exception leaves run(); the state stays as the handler left it.
Raise(kind) == status' = kind /\ UNCHANGED console

\* self.CHAR_MAP of the VM; a glyph outside ASCII is written U+<code point>.
VM_CHAR_MAP ==
    [c \in 0 .. 85 |->
        <<"", " ", ":", "!", "?", "*", "-", "+", "/", ",", ".", "A", "B", "C",
          "D", "E", "F", "G", "H", "I", "J", "K", "L", "M", "N", "O", "P", "Q",
          "R", "S", "T", "U", "V", "W", "X", "Y", "Z", "U+0411", "U+0413",
          "U+0414", "U+0416", "U+0417", "U+0418", "U+041B", "U+041F", "U+0424",
          "U+0426", "U+0427", "U+0428", "U+0429", "U+042A", "U+042B", "U+042C",
          "U+042D", "U+042E", "U+042F", "0", "1", "2", "3", "4", "5", "6", "7",
          "8", "9", "=", "(", ")", "_", "&", "@", "%", "$", "~", "|", "<", ">",
          ";", "U+2721", "^", "#", "[", "]", "{", "}">>[c + 1]]

\* The sixteen bytes of the text buffer, memory[-16 + i].
TEXT_SIZE == 16
TextByte(m, i) ==
    LET a == MEM_SIZE - TEXT_SIZE + i IN IF a \in DOMAIN m THEN m[a] ELSE 0

\* update_console's text: the glyphs CHAR_MAP.get(code, "?") of the bytes in
\* order; the empty glyph of code 0 adds nothing to the string.
RECURSIVE Rendered(_, _)
Rendered(m, i) ==
    IF i >= TEXT_SIZE THEN <<>>
    ELSE LET code == And8(TextByte(m, i))
             glyph == IF code \in DOMAIN VM_CHAR_MAP THEN VM_CHAR_MAP[code] ELSE "?"
         IN  (IF glyph = "" THEN <<>> ELSE <<glyph>>) \o Rendered(m, i + 1)

\* update_console: nothing while the console thread has not made the text
\* widget; else the widget's content is replaced by the rendered text.
update_console(con, m) ==
    IF ~con.up THEN con ELSE [con EXCEPT !.text = Rendered(m, 0)]

\* dump_state after a handler, then update_console, count += 1. An entry
\* holds what the two printed lines show: the handler's name and the
\* operands its message names, PC, the registers, SC and the flags; "at" is
\* where the instruction was fetched.
Retire(name, args) ==
    /\ log' = Append(log, [op |-> name, args |-> args, at |-> PC,
                           PC |-> PC', SC |-> SC', reg |-> reg',
                           Z |-> Z', C |-> C'])
    /\ count' = count + 1
    /\ status' = "run"
    /\ console' = update_console(console, memory')

Running(opcode) ==
    /\ status = "run"
    /\ count < MaxSteps
    /\ Mem(PC) = opcode

\* An exception raised before the handler changed anything.
Crash(kind) ==
    /\ Raise(kind)
    /\ UNCHANGED <<PC, SC, reg, Z, C, memory, ports, count, log>>

\* ------------------------------------------------------------ memory ops

\* op == 0b00000001: LDI reg imm8
ExecLDI ==
    /\ Running(1)
    /\ IF ~FetchOK(2) \/ ~RegOK(Op(1)) THEN Crash("IndexError")
       ELSE /\ reg' = [reg EXCEPT ![Op(1)] = And8(Op(2))]
            /\ PC' = And16(PC + 3)
            /\ UNCHANGED <<SC, Z, C, memory, ports>>
            /\ Retire("LDI", <<Op(1), Op(2)>>)
    /\ UNCHANGED input

\* op == 0b00000010: LDI16; reg[hi] is written before reg[lo] is tried
ExecLDI16 ==
    /\ Running(2)
    /\ IF ~FetchOK(4) \/ ~RegOK(Op(1)) THEN Crash("IndexError")
       ELSE IF ~RegOK(Op(2))
       THEN /\ reg' = [reg EXCEPT ![Op(1)] = And8(Op(4))]
            /\ Raise("IndexError")
            /\ UNCHANGED <<PC, SC, Z, C, memory, ports, count, log>>
       ELSE /\ reg' = [[reg EXCEPT ![Op(1)] = And8(Op(4))]
                            EXCEPT ![Op(2)] = And8(Op(3))]
            /\ PC' = And16(PC + 5)
            /\ UNCHANGED <<SC, Z, C, memory, ports>>
            /\ Retire("LDI16", <<Op(1), Op(2), Op(4) * 256 + Op(3)>>)
    /\ UNCHANGED input

\* op == 0b00000011: MOV
ExecMOV ==
    /\ Running(3)
    /\ IF ~FetchOK(2) \/ ~RegOK(Op(1)) \/ ~RegOK(Op(2)) THEN Crash("IndexError")
       ELSE /\ reg' = [reg EXCEPT ![Op(1)] = And8(reg[Op(2)])]
            /\ PC' = And16(PC + 3)
            /\ UNCHANGED <<SC, Z, C, memory, ports>>
            /\ Retire("MOV", <<Op(1), Op(2)>>)
    /\ UNCHANGED input

\* op == 0b00000100: LDM r, addr16
ExecLDM ==
    /\ Running(4)
    /\ IF ~FetchOK(3) \/ ~RegOK(Op(1)) THEN Crash("IndexError")
       ELSE /\ reg' = [reg EXCEPT ![Op(1)] = And8(Mem(Word(Op(3), Op(2))))]
            /\ PC' = And16(PC + 4)
            /\ UNCHANGED <<SC, Z, C, memory, ports>>
            /\ Retire("LDM", <<Op(1), Word(Op(3), Op(2))>>)
    /\ UNCHANGED input

\* op == 0b00000101: STM addr16, r
ExecSTM ==
    /\ Running(5)
    /\ IF ~FetchOK(3) \/ ~RegOK(Op(3)) THEN Crash("IndexError")
       ELSE /\ memory' = MemSet(memory, Word(Op(2), Op(1)), And8(reg[Op(3)]))
            /\ PC' = And16(PC + 4)
            /\ UNCHANGED <<SC, reg, Z, C, ports>>
            /\ Retire("STM", <<Word(Op(2), Op(1)), Op(3)>>)
    /\ UNCHANGED input

\* op == 0b00000110: LDR r, HI, LO
ExecLDR ==
    /\ Running(6)
    /\ IF ~FetchOK(3) \/ ~RegOK(Op(1)) \/ ~RegOK(Op(2)) \/ ~RegOK(Op(3))
       THEN Crash("IndexError")
       ELSE /\ reg' = [reg EXCEPT ![Op(1)] =
                          And8(Mem(Word(reg[Op(2)], reg[Op(3)])))]
            /\ PC' = And16(PC + 4)
            /\ UNCHANGED <<SC, Z, C, memory, ports>>
            /\ Retire("LDR", <<Op(1), Op(2), Op(3)>>)
    /\ UNCHANGED input

\* op == 0b00000111: STR HI, LO, r
ExecSTR ==
    /\ Running(7)
    /\ IF ~FetchOK(3) \/ ~RegOK(Op(1)) \/ ~RegOK(Op(2)) \/ ~RegOK(Op(3))
       THEN Crash("IndexError")
       ELSE /\ memory' = MemSet(memory, Word(reg[Op(1)], reg[Op(2)]),
                                And8(reg[Op(3)]))
            /\ PC' = And16(PC + 4)
            /\ UNCHANGED <<SC, reg, Z, C, ports>>
            /\ Retire("STR", <<Op(1), Op(2), Op(3)>>)
    /\ UNCHANGED input

\* ------------------------------------------------------------ arithmetic ops

\* The value and flags a handler computes: what it writes to reg[r1], C and Z.
Flags(res, c, z) == [res |-> res, C |-> c, Z |-> z]

\* ADD: res = reg[r1] + reg[r2]; C = 1 if res > 0xFF; res &= 0xFF; Z = (res == 0)
AddRes(a, b) ==
    LET res == a + b
    IN  Flags(And8(res), IF res > 255 THEN 1 ELSE 0, IF And8(res) = 0 THEN 1 ELSE 0)

\* ADC that leaves the carry out of the sum.
AdcRes_NoCarryIn(a, b, cin) ==
    LET res == a + b
    IN  Flags(And8(res), IF res > 255 THEN 1 ELSE 0, IF And8(res) = 0 THEN 1 ELSE 0)

\* ADC: res = reg[r1] + reg[r2] + self.C
AdcRes(a, b, cin) ==
    LET res == a + b + cin
    IN  Flags(And8(res), IF res > 255 THEN 1 ELSE 0, IF And8(res) = 0 THEN 1 ELSE 0)

\* SUB with C = 1 if res <= 0.
SubRes_BorrowOnZero(a, b) ==
    LET res == a - b
    IN  Flags(And8(res), IF res <= 0 THEN 1 ELSE 0, IF And8(res) = 0 THEN 1 ELSE 0)

\* SUB: res = reg[r1] - reg[r2]; C = 1 if res < 0; res &= 0xFF; Z = (res == 0)
SubRes(a, b) ==
    LET res == a - b
    IN  Flags(And8(res), IF res < 0 THEN 1 ELSE 0, IF And8(res) = 0 THEN 1 ELSE 0)

\* SBC: res = reg[r1] - reg[r2] - self.C
SbcRes(a, b, cin) ==
    LET res == a - b - cin
    IN  Flags(And8(res), IF res < 0 THEN 1 ELSE 0, IF And8(res) = 0 THEN 1 ELSE 0)

\* A variant of INC that keeps the ninth bit of the result.
IncRes_NoWrap(a) ==
    LET res == a + 1
    IN  Flags(res, IF res > 255 THEN 1 ELSE 0, IF And8(res) = 0 THEN 1 ELSE 0)

\* INC: res = reg[r] + 1
IncRes(a) ==
    LET res == a + 1
    IN  Flags(And8(res), IF res > 255 THEN 1 ELSE 0, IF And8(res) = 0 THEN 1 ELSE 0)

\* DEC: res = reg[r] - 1
DecRes(a) ==
    LET res == a - 1
    IN  Flags(And8(res), IF res < 0 THEN 1 ELSE 0, IF And8(res) = 0 THEN 1 ELSE 0)

\* CMP: res = reg[r1] - reg[r2]; C and Z as SUB; res is dropped
CmpRes(a, b) ==
    LET res == a - b
    IN  Flags(And8(res), IF res < 0 THEN 1 ELSE 0, IF And8(res) = 0 THEN 1 ELSE 0)

\* reg[r1], reg[r2] of a handler (0 where the read raises IndexError).
R1 == IF RegOK(Op(1)) THEN reg[Op(1)] ELSE 0
R2 == IF RegOK(Op(2)) THEN reg[Op(2)] ELSE 0

\* op == 0b00001000: ADD r1, r2
ExecADD ==
    /\ Running(8)
    /\ IF ~FetchOK(2) \/ ~RegOK(Op(1)) \/ ~RegOK(Op(2)) THEN Crash("IndexError")
       ELSE /\ C' = AddRes(R1, R2).C
            /\ reg' = [reg EXCEPT ![Op(1)] = AddRes(R1, R2).res]
            /\ Z' = AddRes(R1, R2).Z
            /\ PC' = And16(PC + 3)
            /\ UNCHANGED <<SC, memory, ports>>
            /\ Retire("ADD", <<Op(1), Op(2)>>)
    /\ UNCHANGED input

\* op == 0b00001001: ADC r1, r2
ExecADC ==
    /\ Running(9)
    /\ IF ~FetchOK(2) \/ ~RegOK(Op(1)) \/ ~RegOK(Op(2)) THEN Crash("IndexError")
       ELSE /\ C' = AdcRes(R1, R2, C).C
            /\ reg' = [reg EXCEPT ![Op(1)] = AdcRes(R1, R2, C).res]
            /\ Z' = AdcRes(R1, R2, C).Z
            /\ PC' = And16(PC + 3)
            /\ UNCHANGED <<SC, memory, ports>>
            /\ Retire("ADC", <<Op(1), Op(2)>>)
    /\ UNCHANGED input

\* op == 0b00001010: SUB r1, r2
ExecSUB ==
    /\ Running(10)
    /\ IF ~FetchOK(2) \/ ~RegOK(Op(1)) \/ ~RegOK(Op(2)) THEN Crash("IndexError")
       ELSE /\ C' = SubRes(R1, R2).C
            /\ reg' = [reg EXCEPT ![Op(1)] = SubRes(R1, R2).res]
            /\ Z' = SubRes(R1, R2).Z
            /\ PC' = And16(PC + 3)
            /\ UNCHANGED <<SC, memory, ports>>
            /\ Retire("SUB", <<Op(1), Op(2)>>)
    /\ UNCHANGED input

\* op == 0b00001011: SBC r1, r2
ExecSBC ==
    /\ Running(11)
    /\ IF ~FetchOK(2) \/ ~RegOK(Op(1)) \/ ~RegOK(Op(2)) THEN Crash("IndexError")
       ELSE /\ C' = SbcRes(R1, R2, C).C
            /\ reg' = [reg EXCEPT ![Op(1)] = SbcRes(R1, R2, C).res]
            /\ Z' = SbcRes(R1, R2, C).Z
            /\ PC' = And16(PC + 3)
            /\ UNCHANGED <<SC, memory, ports>>
            /\ Retire("SBC", <<Op(1), Op(2)>>)
    /\ UNCHANGED input

\* op == 0b00001100: INC r
ExecINC ==
    /\ Running(12)
    /\ IF ~FetchOK(1) \/ ~RegOK(Op(1)) THEN Crash("IndexError")
       ELSE /\ C' = IncRes(R1).C
            /\ reg' = [reg EXCEPT ![Op(1)] = IncRes(R1).res]
            /\ Z' = IncRes(R1).Z
            /\ PC' = And16(PC + 2)
            /\ UNCHANGED <<SC, memory, ports>>
            /\ Retire("INC", <<Op(1)>>)
    /\ UNCHANGED input

\* op == 0b00001101: DEC r
ExecDEC ==
    /\ Running(13)
    /\ IF ~FetchOK(1) \/ ~RegOK(Op(1)) THEN Crash("IndexError")
       ELSE /\ C' = DecRes(R1).C
            /\ reg' = [reg EXCEPT ![Op(1)] = DecRes(R1).res]
            /\ Z' = DecRes(R1).Z
            /\ PC' = And16(PC + 2)
            /\ UNCHANGED <<SC, memory, ports>>
            /\ Retire("DEC", <<Op(1)>>)
    /\ UNCHANGED input

\* CMP that stores the difference as SUB does.
ExecCMP_Writes ==
    /\ Running(14)
    /\ IF ~FetchOK(2) \/ ~RegOK(Op(1)) \/ ~RegOK(Op(2)) THEN Crash("IndexError")
       ELSE /\ C' = CmpRes(R1, R2).C
            /\ reg' = [reg EXCEPT ![Op(1)] = CmpRes(R1, R2).res]
            /\ Z' = CmpRes(R1, R2).Z
            /\ PC' = And16(PC + 3)
            /\ UNCHANGED <<SC, memory, ports>>
            /\ Retire("CMP", <<Op(1), Op(2)>>)
    /\ UNCHANGED input

\* op == 0b00001110: CMP r1, r2: C and Z set, no register written
ExecCMP ==
    /\ Running(14)
    /\ IF ~FetchOK(2) \/ ~RegOK(Op(1)) \/ ~RegOK(Op(2)) THEN Crash("IndexError")
       ELSE /\ C' = CmpRes(R1, R2).C
            /\ Z' = CmpRes(R1, R2).Z
            /\ PC' = And16(PC + 3)
            /\ UNCHANGED <<SC, reg, memory, ports>>
            /\ Retire("CMP", <<Op(1), Op(2)>>)
    /\ UNCHANGED input

\* ------------------------------------------------------------ logic ops

\* AND that clears C.
ExecAND_ClearsC ==
    /\ Running(15)
    /\ IF ~FetchOK(2) \/ ~RegOK(Op(1)) \/ ~RegOK(Op(2)) THEN Crash("IndexError")
       ELSE LET res == And8(BitAndN(R1, R2, 8))
            IN  /\ reg' = [reg EXCEPT ![Op(1)] = res]
                /\ Z' = IF res = 0 THEN 1 ELSE 0
                /\ C' = 0
                /\ PC' = And16(PC + 3)
                /\ UNCHANGED <<SC, memory, ports>>
                /\ Retire("AND", <<Op(1), Op(2)>>)
    /\ UNCHANGED input

\* op == 0b00001111: AND r1, r2: C is not assigned
ExecAND ==
    /\ Running(15)
    /\ IF ~FetchOK(2) \/ ~RegOK(Op(1)) \/ ~RegOK(Op(2)) THEN Crash("IndexError")
       ELSE LET res == And8(BitAndN(R1, R2, 8))
            IN  /\ reg' = [reg EXCEPT ![Op(1)] = res]
                /\ Z' = IF res = 0 THEN 1 ELSE 0
                /\ PC' = And16(PC + 3)
                /\ UNCHANGED <<SC, C, memory, ports>>
                /\ Retire("AND", <<Op(1), Op(2)>>)
    /\ UNCHANGED input

\* op == 0b00010000: OR r1, r2
ExecOR ==
    /\ Running(16)
    /\ IF ~FetchOK(2) \/ ~RegOK(Op(1)) \/ ~RegOK(Op(2)) THEN Crash("IndexError")
       ELSE LET res == And8(BitOrN(R1, R2, 8))
            IN  /\ reg' = [reg EXCEPT ![Op(1)] = res]
                /\ Z' = IF res = 0 THEN 1 ELSE 0
                /\ PC' = And16(PC + 3)
                /\ UNCHANGED <<SC, C, memory, ports>>
                /\ Retire("OR", <<Op(1), Op(2)>>)
    /\ UNCHANGED input

\* op == 0b00010001: XOR r1, r2
ExecXOR ==
    /\ Running(17)
    /\ IF ~FetchOK(2) \/ ~RegOK(Op(1)) \/ ~RegOK(Op(2)) THEN Crash("IndexError")
       ELSE LET res == And8(BitXorN(R1, R2, 8))
            IN  /\ reg' = [reg EXCEPT ![Op(1)] = res]
                /\ Z' = IF res = 0 THEN 1 ELSE 0
                /\ PC' = And16(PC + 3)
                /\ UNCHANGED <<SC, C, memory, ports>>
                /\ Retire("XOR", <<Op(1), Op(2)>>)
    /\ UNCHANGED input

\* op == 0b00010010: NOT r: res = (~reg[r]) & 0xFF
ExecNOT ==
    /\ Running(18)
    /\ IF ~FetchOK(1) \/ ~RegOK(Op(1)) THEN Crash("IndexError")
       ELSE LET res == And8(-R1 - 1)
            IN  /\ reg' = [reg EXCEPT ![Op(1)] = res]
                /\ Z' = IF res = 0 THEN 1 ELSE 0
                /\ PC' = And16(PC + 2)
                /\ UNCHANGED <<SC, C, memory, ports>>
                /\ Retire("NOT", <<Op(1)>>)
    /\ UNCHANGED input

\* op == 0b00010011: SHL r: C = old bit 7
ExecSHL ==
    /\ Running(19)
    /\ IF ~FetchOK(1) \/ ~RegOK(Op(1)) THEN Crash("IndexError")
       ELSE LET old == And8(R1)
                res == And8(old * 2)
            IN  /\ C' = (old \div 128) % 2
                /\ reg' = [reg EXCEPT ![Op(1)] = res]
                /\ Z' = IF res = 0 THEN 1 ELSE 0
                /\ PC' = And16(PC + 2)
                /\ UNCHANGED <<SC, memory, ports>>
                /\ Retire("SHL", <<Op(1)>>)
    /\ UNCHANGED input

\* op == 0b00010100: SHR r: C = old bit 0
ExecSHR ==
    /\ Running(20)
    /\ IF ~FetchOK(1) \/ ~RegOK(Op(1)) THEN Crash("IndexError")
       ELSE LET old == And8(R1)
                res == And8(old \div 2)
            IN  /\ C' = old % 2
                /\ reg' = [reg EXCEPT ![Op(1)] = res]
                /\ Z' = IF res = 0 THEN 1 ELSE 0
                /\ PC' = And16(PC + 2)
                /\ UNCHANGED <<SC, memory, ports>>
                /\ Retire("SHR", <<Op(1)>>)
    /\ UNCHANGED input

\* ------------------------------------------------------------ jumps

\* addr = ((addr_hi << 8) | addr_lo) & 0xFFFF from the two bytes after the opcode
JumpAddr == Word(Op(2), Op(1))

\* A jump handler: PC = addr when taken, PC + 3 otherwise.
Jump(name, taken) ==
    IF ~FetchOK(2) THEN Crash("IndexError")
    ELSE /\ PC' = IF taken THEN JumpAddr ELSE And16(PC + 3)
         /\ UNCHANGED <<SC, reg, Z, C, memory, ports>>
         /\ Retire(name, IF taken THEN <<JumpAddr>> ELSE <<>>)

\* op == 0b00010101: JMP addr16
ExecJMP ==
    /\ Running(21)
    /\ Jump("JMP", TRUE)
    /\ UNCHANGED input

\* op == 0b00010110: JZ addr16
ExecJZ ==
    /\ Running(22)
    /\ Jump("JZ", Z = 1)
    /\ UNCHANGED input

\* op == 0b00010111: JNZ addr16
\* A variant of JNZ that jumps when Z is set.
ExecJNZ_OnZero ==
    /\ Running(23)
    /\ Jump("JNZ", Z = 1)
    /\ UNCHANGED input

ExecJNZ ==
    /\ Running(23)
    /\ Jump("JNZ", Z = 0)
    /\ UNCHANGED input

\* op == 0b00011000: JC addr16
ExecJC ==
    /\ Running(24)
    /\ Jump("JC", C = 1)
    /\ UNCHANGED input

\* op == 0b00011001: JNC addr16
ExecJNC ==
    /\ Running(25)
    /\ Jump("JNC", C = 0)
    /\ UNCHANGED input

\* ------------------------------------------------------------ stack ops

\* PUSH without the overflow test.
ExecPUSH_NoLimit ==
    /\ Running(26)
    /\ IF ~FetchOK(1) \/ ~RegOK(Op(1)) THEN Crash("IndexError")
       ELSE /\ SC' = And16(SC - 1)
            /\ memory' = MemSet(memory, And16(SC - 1), And8(reg[Op(1)]))
            /\ PC' = And16(PC + 2)
            /\ UNCHANGED <<reg, Z, C, ports>>
            /\ Retire("PUSH", <<Op(1)>>)
    /\ UNCHANGED input

\* op == 0b00011010: PUSH r
ExecPUSH ==
    /\ Running(26)
    /\ IF ~FetchOK(1) \/ ~RegOK(Op(1)) THEN Crash("IndexError")
       ELSE IF SC <= STACK_START THEN Crash("StackOverflow")
       ELSE /\ SC' = And16(SC - 1)
            /\ memory' = MemSet(memory, And16(SC - 1), And8(reg[Op(1)]))
            /\ PC' = And16(PC + 2)
            /\ UNCHANGED <<reg, Z, C, ports>>
            /\ Retire("PUSH", <<Op(1)>>)
    /\ UNCHANGED input

\* POP that moves SC before it reads the byte.
ExecPOP_MoveFirst ==
    /\ Running(27)
    /\ IF ~FetchOK(1) THEN Crash("IndexError")
       ELSE IF SC >= STACK_END THEN Crash("StackUnderflow")
       ELSE IF ~RegOK(Op(1))
       THEN /\ SC' = And16(SC + 1)
            /\ Raise("IndexError")
            /\ UNCHANGED <<PC, reg, Z, C, memory, ports, count, log>>
       ELSE /\ SC' = And16(SC + 1)
            /\ reg' = [reg EXCEPT ![Op(1)] = And8(Mem(And16(SC + 1)))]
            /\ PC' = And16(PC + 2)
            /\ UNCHANGED <<Z, C, memory, ports>>
            /\ Retire("POP", <<Op(1)>>)
    /\ UNCHANGED input

\* op == 0b00011011: POP r; SC has moved when reg[r] = val raises
ExecPOP ==
    /\ Running(27)
    /\ IF ~FetchOK(1) THEN Crash("IndexError")
       ELSE IF SC >= STACK_END THEN Crash("StackUnderflow")
       ELSE IF ~RegOK(Op(1))
       THEN /\ SC' = And16(SC + 1)
            /\ Raise("IndexError")
            /\ UNCHANGED <<PC, reg, Z, C, memory, ports, count, log>>
       ELSE /\ SC' = And16(SC + 1)
            /\ reg' = [reg EXCEPT ![Op(1)] = And8(Mem(SC))]
            /\ PC' = And16(PC + 2)
            /\ UNCHANGED <<Z, C, memory, ports>>
            /\ Retire("POP", <<Op(1)>>)
    /\ UNCHANGED input

\* PUSH16 that stores lo first, so that lo lies deeper than hi.
ExecPUSH16_LoFirst ==
    /\ Running(28)
    /\ IF ~FetchOK(2) \/ ~RegOK(Op(1)) \/ ~RegOK(Op(2)) THEN Crash("IndexError")
       ELSE IF SC <= STACK_START THEN Crash("StackOverflow")
       ELSE LET hi == And8(reg[Op(1)])
                lo == And8(reg[Op(2)])
                s1 == And16(SC - 1)
                s2 == And16(s1 - 1)
            IN  IF s1 <= STACK_START
                THEN /\ SC' = s1
                     /\ memory' = MemSet(memory, s1, lo)
                     /\ Raise("StackOverflow")
                     /\ UNCHANGED <<PC, reg, Z, C, ports, count, log>>
                ELSE /\ SC' = s2
                     /\ memory' = MemSet(MemSet(memory, s1, lo), s2, hi)
                     /\ PC' = And16(PC + 3)
                     /\ UNCHANGED <<reg, Z, C, ports>>
                     /\ Retire("PUSH16", <<Op(1), Op(2)>>)
    /\ UNCHANGED input

\* op == 0b00011100: PUSH16 HI, LO: hi is stored before the second check
ExecPUSH16 ==
    /\ Running(28)
    /\ IF ~FetchOK(2) \/ ~RegOK(Op(1)) \/ ~RegOK(Op(2)) THEN Crash("IndexError")
       ELSE IF SC <= STACK_START THEN Crash("StackOverflow")
       ELSE LET hi == And8(reg[Op(1)])
                lo == And8(reg[Op(2)])
                s1 == And16(SC - 1)
                s2 == And16(s1 - 1)
            IN  IF s1 <= STACK_START
                THEN /\ SC' = s1
                     /\ memory' = MemSet(memory, s1, hi)
                     /\ Raise("StackOverflow")
                     /\ UNCHANGED <<PC, reg, Z, C, ports, count, log>>
                ELSE /\ SC' = s2
                     /\ memory' = MemSet(MemSet(memory, s1, hi), s2, lo)
                     /\ PC' = And16(PC + 3)
                     /\ UNCHANGED <<reg, Z, C, ports>>
                     /\ Retire("PUSH16", <<Op(1), Op(2)>>)
    /\ UNCHANGED input

\* op == 0b00011101: POP16 HI, LO: lo is read first, reg[hi_r] written first
ExecPOP16 ==
    /\ Running(29)
    /\ IF ~FetchOK(2) THEN Crash("IndexError")
       ELSE IF SC >= STACK_END THEN Crash("StackUnderflow")
       ELSE LET lo == And8(Mem(SC))
                s1 == And16(SC + 1)
                hi == And8(Mem(s1))
                s2 == And16(s1 + 1)
            IN  IF s1 >= STACK_END
                THEN /\ SC' = s1
                     /\ Raise("StackUnderflow")
                     /\ UNCHANGED <<PC, reg, Z, C, memory, ports, count, log>>
                ELSE IF ~RegOK(Op(1))
                THEN /\ SC' = s2
                     /\ Raise("IndexError")
                     /\ UNCHANGED <<PC, reg, Z, C, memory, ports, count, log>>
                ELSE IF ~RegOK(Op(2))
                THEN /\ SC' = s2
                     /\ reg' = [reg EXCEPT ![Op(1)] = hi]
                     /\ Raise("IndexError")
                     /\ UNCHANGED <<PC, Z, C, memory, ports, count, log>>
                ELSE /\ SC' = s2
                     /\ reg' = [[reg EXCEPT ![Op(1)] = hi] EXCEPT ![Op(2)] = lo]
                     /\ PC' = And16(PC + 3)
                     /\ UNCHANGED <<Z, C, memory, ports>>
                     /\ Retire("POP16", <<Op(1), Op(2)>>)
    /\ UNCHANGED input

\* op == 0b00011110: CALL addr16: ret_addr = (PC + 3) & 0xFFFF, hi pushed first
ExecCALL ==
    /\ Running(30)
    /\ IF ~FetchOK(2) THEN Crash("IndexError")
       ELSE IF SC <= STACK_START THEN Crash("StackOverflow")
       ELSE LET target == Word(Op(2), Op(1))
                ret_addr == And16(PC + 3)
                ret_hi == And8(ret_addr \div 256)
                ret_lo == And8(ret_addr)
                s1 == And16(SC - 1)
                s2 == And16(s1 - 1)
            IN  IF s1 <= STACK_START
                THEN /\ SC' = s1
                     /\ memory' = MemSet(memory, s1, ret_hi)
                     /\ Raise("StackOverflow")
                     /\ UNCHANGED <<PC, reg, Z, C, ports, count, log>>
                ELSE /\ SC' = s2
                     /\ memory' = MemSet(MemSet(memory, s1, ret_hi), s2, ret_lo)
                     /\ PC' = target
                     /\ UNCHANGED <<reg, Z, C, ports>>
                     /\ Retire("CALL", <<target, ret_addr>>)
    /\ UNCHANGED input

\* RET that takes the first byte popped for the high byte.
ExecRET_HiFirst ==
    /\ Running(31)
    /\ IF SC >= STACK_END THEN Crash("StackUnderflow")
       ELSE LET ret_hi == And8(Mem(SC))
                s1 == And16(SC + 1)
                ret_lo == And8(Mem(s1))
                s2 == And16(s1 + 1)
            IN  IF s1 >= STACK_END
                THEN /\ SC' = s1
                     /\ Raise("StackUnderflow")
                     /\ UNCHANGED <<PC, reg, Z, C, memory, ports, count, log>>
                ELSE /\ SC' = s2
                     /\ PC' = Word(ret_hi, ret_lo)
                     /\ UNCHANGED <<reg, Z, C, memory, ports>>
                     /\ Retire("RET", <<>>)
    /\ UNCHANGED input

\* op == 0b00011111: RET: ret_lo popped first, then ret_hi
ExecRET ==
    /\ Running(31)
    /\ IF SC >= STACK_END THEN Crash("StackUnderflow")
       ELSE LET ret_lo == And8(Mem(SC))
                s1 == And16(SC + 1)
                ret_hi == And8(Mem(s1))
                s2 == And16(s1 + 1)
            IN  IF s1 >= STACK_END
                THEN /\ SC' = s1
                     /\ Raise("StackUnderflow")
                     /\ UNCHANGED <<PC, reg, Z, C, memory, ports, count, log>>
                ELSE /\ SC' = s2
                     /\ PC' = Word(ret_hi, ret_lo)
                     /\ UNCHANGED <<reg, Z, C, memory, ports>>
                     /\ Retire("RET", <<>>)
    /\ UNCHANGED input

\* ------------------------------------------------------------ I/O

\* op == 0b00100000: IN r, port
\* A variant of IN that leaves the zero flag as it was.
ExecIN_KeepsZ ==
    /\ Running(32)
    /\ IF ~FetchOK(2) THEN Crash("IndexError")
       ELSE IF Op(2) < 0 \/ Op(2) >= NPORTS THEN Crash("InvalidPort")
       ELSE IF ~RegOK(Op(1)) THEN Crash("IndexError")
       ELSE LET val == And8(ports[Op(2)])
            IN  /\ reg' = [reg EXCEPT ![Op(1)] = val]
                /\ PC' = And16(PC + 3)
                /\ UNCHANGED <<SC, Z, C, memory, ports>>
                /\ Retire("IN", <<Op(1), Op(2)>>)
    /\ UNCHANGED input

ExecIN ==
    /\ Running(32)
    /\ IF ~FetchOK(2) THEN Crash("IndexError")
       ELSE IF Op(2) < 0 \/ Op(2) >= NPORTS THEN Crash("InvalidPort")
       ELSE IF ~RegOK(Op(1)) THEN Crash("IndexError")
       ELSE LET val == And8(ports[Op(2)])
            IN  /\ reg' = [reg EXCEPT ![Op(1)] = val]
                /\ Z' = IF val = 0 THEN 1 ELSE 0
                /\ PC' = And16(PC + 3)
                /\ UNCHANGED <<SC, C, memory, ports>>
                /\ Retire("IN", <<Op(1), Op(2)>>)
    /\ UNCHANGED input

\* op == 0b00100001: OUT port, r
ExecOUT ==
    /\ Running(33)
    /\ IF ~FetchOK(2) THEN Crash("IndexError")
       ELSE IF Op(1) < 0 \/ Op(1) >= NPORTS THEN Crash("InvalidPort")
       ELSE IF ~RegOK(Op(2)) THEN Crash("IndexError")
       ELSE /\ ports' = [ports EXCEPT ![Op(1)] = And8(reg[Op(2)])]
            /\ PC' = And16(PC + 3)
            /\ UNCHANGED <<SC, reg, Z, C, memory>>
            /\ Retire("OUT", <<Op(1), Op(2)>>)
    /\ UNCHANGED input

\* ------------------------------------------------------------ system

\* op == 0b11111111: HALT: dump_state, then break (no count += 1)
ExecHALT ==
    /\ status = "run"
    /\ Mem(PC) = 255
    /\ status' = "halt"
    /\ log' = Append(log, [op |-> "HALT", args |-> <<>>, at |-> PC, PC |-> PC,
                           SC |-> SC, reg |-> reg, Z |-> Z, C |-> C])
    /\ UNCHANGED <<PC, SC, reg, Z, C, memory, ports, count, input, console>>

\* The opcodes run() dispatches on.
KnownOpcodes == (1 .. 33) \cup {255}

\* A variant of the unknown-opcode branch that sets the zero flag.
ExecUnknown_SetsZ ==
    /\ status = "run"
    /\ count < MaxSteps
    /\ Mem(PC) \notin KnownOpcodes
    /\ PC' = And16(PC + 1)
    /\ Z' = 1
    /\ UNCHANGED <<SC, reg, C, memory, ports>>
    /\ Retire("?", <<Mem(PC)>>)
    /\ UNCHANGED input

\* else: print "Unknown opcode", PC = (PC + 1) & 0xFFFF
ExecUnknown ==
    /\ status = "run"
    /\ count < MaxSteps
    /\ Mem(PC) \notin KnownOpcodes
    /\ PC' = And16(PC + 1)
    /\ UNCHANGED <<SC, reg, Z, C, memory, ports>>
    /\ Retire("?", <<Mem(PC)>>)
    /\ UNCHANGED input

\* ------------------------------------------------------------ assembler

\* A token of an assembly line after _tokens: a numeral (with the value
\* parse_number gives it) or a word matching [A-Za-z_]\w*.
Num(v) == [k |-> "num", v |-> v, s |-> ""]
Id(s) == [k |-> "id", v |-> 0, s |-> s]

\* A source line: its leading labels, then a mnemonic ("" for none) and operands.
Line(lbls, ins, args) == [labels |-> lbls, ins |-> ins, args |-> args]
Ins(ins, args) == Line(<<>>, ins, args)
Lbl(name) == Line(<<name>>, "", <<>>)
I0(ins) == Ins(ins, <<>>)
I1(ins, a) == Ins(ins, <<a>>)
I2(ins, a, b) == Ins(ins, <<a, b>>)
I3(ins, a, b, c) == Ins(ins, <<a, b, c>>)

\* OP: mnemonic -> opcode byte.
OP ==
    ("LDI" :> 1) @@ ("LDI16" :> 2) @@ ("MOV" :> 3) @@ ("LDM" :> 4) @@
    ("STM" :> 5) @@ ("LDR" :> 6) @@ ("STR" :> 7) @@ ("ADD" :> 8) @@
    ("ADC" :> 9) @@ ("SUB" :> 10) @@ ("SBC" :> 11) @@ ("INC" :> 12) @@
    ("DEC" :> 13) @@ ("CMP" :> 14) @@ ("AND" :> 15) @@ ("OR" :> 16) @@
    ("XOR" :> 17) @@ ("NOT" :> 18) @@ ("SHL" :> 19) @@ ("SHR" :> 20) @@
    ("JMP" :> 21) @@ ("JZ" :> 22) @@ ("JNZ" :> 23) @@ ("JC" :> 24) @@
    ("JNC" :> 25) @@ ("PUSH" :> 26) @@ ("POP" :> 27) @@ ("PUSH16" :> 28) @@
    ("POP16" :> 29) @@ ("CALL" :> 30) @@ ("RET" :> 31) @@ ("IN" :> 32) @@
    ("OUT" :> 33) @@ ("HALT" :> 255)

\* REG: R0..R15 and the letters A..P -> register index.
RegLetters ==
    <<"A", "B", "C", "D", "E", "F", "G", "H",
      "I", "J", "K", "L", "M", "N", "O", "P">>
RegRNames ==
    <<"R0", "R1", "R2", "R3", "R4", "R5", "R6", "R7",
      "R8", "R9", "R10", "R11", "R12", "R13", "R14", "R15">>
REG ==
    [n \in {RegLetters[i] : i \in 1 .. 16} \cup {RegRNames[i] : i \in 1 .. 16} |->
        IF \E i \in 1 .. 16 : RegLetters[i] = n
        THEN (CHOOSE i \in 1 .. 16 : RegLetters[i] = n) - 1
        ELSE (CHOOSE i \in 1 .. 16 : RegRNames[i] = n) - 1]

\* A parse result: a value, or the ValueError / IndexError that ends assembly.
Ok(v) == [ok |-> TRUE, v |-> v, err |-> ""]
Err(e) == [ok |-> FALSE, v |-> 0, err |-> e]

\* TRUE, and v is evaluated here rather than where it is first used.
Forced(v) == v = v

\* tok[i] of the token list (tok[0] is the mnemonic): IndexError when missing.
HasArg(args, i) == i <= Len(args)

\* parse_reg
parse_reg(tok) ==
    IF tok.k = "id" /\ tok.s \in DOMAIN REG THEN Ok(REG[tok.s])
    ELSE Err("unknown register")

\* The tokens parse_reg_pair accepts, with the two register names of each:
\* R<i>R<j> (the regular expression), and two letters that are both in REG.
PairRForm ==
    LET rs == {RegRNames[i] : i \in 1 .. 16}
    IN  [t \in {p[1] \o p[2] : p \in rs \X rs} |->
            CHOOSE p \in rs \X rs : p[1] \o p[2] = t]
PairLForm ==
    LET ls == {RegLetters[i] : i \in 1 .. 16}
    IN  [t \in {p[1] \o p[2] : p \in ls \X ls} |->
            CHOOSE p \in ls \X ls : p[1] \o p[2] = t]

\* parse_reg_pair
parse_reg_pair(tok) ==
    IF tok.k = "id" /\ tok.s \in DOMAIN PairRForm
    THEN Ok(<<REG[PairRForm[tok.s][1]], REG[PairRForm[tok.s][2]]>>)
    ELSE IF tok.k = "id" /\ tok.s \in DOMAIN PairLForm
    THEN Ok(<<REG[PairLForm[tok.s][1]], REG[PairLForm[tok.s][2]]>>)
    ELSE Err("bad register pair")

\* A variant of parse_value that reads an unknown word as 0.
parse_value_Lenient(tok, labels) ==
    IF tok.k = "id"
    THEN IF tok.s \in DOMAIN labels THEN Ok(labels[tok.s]) ELSE Ok(0)
    ELSE Ok(tok.v)

\* parse_value: a word is a label, anything else a number.
parse_value(tok, labels) ==
    IF tok.k = "id"
    THEN IF tok.s \in DOMAIN labels THEN Ok(labels[tok.s]) ELSE Err("unknown label")
    ELSE Ok(tok.v)

\* A 16-bit value emitted HI then LO.
emit_u16_hilo(v) == <<And8(And16(v) \div 256), And8(And16(v))>>

\* emit_u8 and emit_u16_lohi
emit_u8(v) == <<And8(v)>>
emit_u16_lohi(v) == <<And8(And16(v)), And8(And16(v) \div 256)>>

\* estimate_len of the "$" directive: a word counts 2, a number 1 or 2.
RECURSIVE DataLen(_)
DataLen(args) ==
    IF args = <<>> THEN 0
    ELSE (IF Head(args).k = "id" THEN 2
          ELSE IF Head(args).v < 0 \/ Head(args).v > 255 THEN 2 ELSE 1)
         + DataLen(Tail(args))

\* A variant of estimate_len that counts LDI16 as four bytes.
estimate_len_ShortLDI16(ln) ==
    IF ln.ins = "$" THEN DataLen(ln.args)
    ELSE IF ln.ins \in {"HALT", "RET"} THEN 1
    ELSE IF ln.ins \in {"INC", "DEC", "NOT", "SHL", "SHR", "PUSH", "POP"} THEN 2
    ELSE IF ln.ins \in {"ADD", "ADC", "SUB", "SBC", "CMP", "AND", "OR", "XOR",
                        "MOV", "IN", "OUT"} THEN 3
    ELSE IF ln.ins \in {"JMP", "JZ", "JNZ", "JC", "JNC", "CALL"} THEN 3
    ELSE IF ln.ins = "LDI" THEN 3
    ELSE IF ln.ins \in {"LDI16", "LDM", "STM", "LDR", "STR"} THEN 4
    ELSE IF ln.ins \in {"PUSH16", "POP16"} THEN 3
    ELSE -1

\* estimate_len: -1 for the ValueError of an unknown mnemonic.
estimate_len(ln) ==
    IF ln.ins = "$" THEN DataLen(ln.args)
    ELSE IF ln.ins \in {"HALT", "RET"} THEN 1
    ELSE IF ln.ins \in {"INC", "DEC", "NOT", "SHL", "SHR", "PUSH", "POP"} THEN 2
    ELSE IF ln.ins \in {"ADD", "ADC", "SUB", "SBC", "CMP", "AND", "OR", "XOR",
                        "MOV", "IN", "OUT"} THEN 3
    ELSE IF ln.ins \in {"JMP", "JZ", "JNZ", "JC", "JNC", "CALL"} THEN 3
    ELSE IF ln.ins = "LDI" THEN 3
    ELSE IF ln.ins = "LDI16" THEN 5
    ELSE IF ln.ins \in {"LDM", "STM", "LDR", "STR"} THEN 4
    ELSE IF ln.ins \in {"PUSH16", "POP16"} THEN 3
    ELSE -1

\* Pass 1 on one line: its labels get pc, ln.addr = pc, and pc advances by
\* estimate_len. st is the label table, pc and the ln.addr so far, or the
\* error that ended pass 1.
Pass1Line(st, ln) ==
    CHOOSE done \in {(
    IF ~s.ok THEN s
    ELSE LET labels == s.v.labels
             pc == s.v.pc
             names == {ln.labels[j] : j \in 1 .. Len(ln.labels)}
             dup == \/ names \cap DOMAIN labels # {}
                    \/ Cardinality(names) # Len(ln.labels)
             labels2 == [n \in DOMAIN labels \cup names |->
                            IF n \in names THEN pc ELSE labels[n]]
         IN  IF dup THEN Err("duplicate label")
             ELSE IF ln.ins = ""
             THEN Ok([labels |-> labels2, pc |-> pc, addrs |-> Append(s.v.addrs, pc)])
             ELSE IF estimate_len(ln) < 0 THEN Err("unknown mnemonic")
             ELSE Ok([labels |-> labels2, pc |-> And16(pc + estimate_len(ln)),
                      addrs |-> Append(s.v.addrs, pc)])
    ) : s \in {st}} : TRUE

\* Pass 1 on the lines i .. j in order, from st.
RECURSIVE Pass1Of(_, _, _, _)
Pass1Of(lines, i, j, st) ==
    IF i > j \/ ~Forced(st) THEN st
    ELSE IF i = j THEN Pass1Line(st, lines[i])
    ELSE Pass1Of(lines, (i + j) \div 2 + 1, j,
                 Pass1Of(lines, i, (i + j) \div 2, st))

\* Pass 1 from line i on: the label table and every ln.addr, or the error
\* that ends it.
Pass1(lines, i, labels, pc, addrs) ==
    Pass1Of(lines, i, Len(lines),
            Ok([labels |-> labels, pc |-> pc, addrs |-> addrs]))

\* The bytes of one operand, or the error its parse raises.
Cat(a, b) == IF ~a.ok THEN a ELSE IF ~b.ok THEN b ELSE Ok(a.v \o b.v)

RegB(args, i) ==
    IF ~HasArg(args, i) THEN Err("missing operand")
    ELSE LET r == parse_reg(args[i]) IN IF r.ok THEN Ok(emit_u8(r.v)) ELSE r

ValB8(args, i, labels) ==
    IF ~HasArg(args, i) THEN Err("missing operand")
    ELSE LET r == parse_value(args[i], labels) IN IF r.ok THEN Ok(emit_u8(r.v)) ELSE r

ValB16(args, i, labels) ==
    IF ~HasArg(args, i) THEN Err("missing operand")
    ELSE LET r == parse_value(args[i], labels)
         IN  IF r.ok THEN Ok(emit_u16_lohi(r.v)) ELSE r

PairB(args, i) ==
    IF ~HasArg(args, i) THEN Err("missing operand")
    ELSE LET r == parse_reg_pair(args[i])
         IN  IF r.ok THEN Ok(emit_u8(r.v[1]) \o emit_u8(r.v[2])) ELSE r

\* A variant of pass 2 of "$" that emits lo, hi from 0x80 on.
RECURSIVE DataBytes_Wide(_, _)
DataBytes_Wide(args, labels) ==
    IF args = <<>> THEN Ok(<<>>)
    ELSE LET r == parse_value(Head(args), labels)
         IN  IF ~r.ok THEN r
             ELSE Cat(Ok(IF r.v < 0 \/ r.v > 127 THEN emit_u16_lohi(r.v)
                         ELSE emit_u8(r.v)),
                      DataBytes_Wide(Tail(args), labels))

\* Pass 2 of the "$" directive: one byte for a value in 0..0xFF, else lo, hi.
RECURSIVE DataBytes(_, _)
DataBytes(args, labels) ==
    IF args = <<>> THEN Ok(<<>>)
    ELSE LET r == parse_value(Head(args), labels)
         IN  IF ~r.ok THEN r
             ELSE Cat(Ok(IF r.v < 0 \/ r.v > 255 THEN emit_u16_lohi(r.v)
                         ELSE emit_u8(r.v)),
                      DataBytes(Tail(args), labels))

\* Pass 2 of one statement: the opcode, then the operands in the handler's order.
Encode(ln, labels) ==
    LET a == ln.args
        op == Ok(emit_u8(OP[ln.ins]))
    IN  IF ln.ins = "$" THEN DataBytes(a, labels)
        ELSE IF ln.ins \notin DOMAIN OP THEN Err("unknown mnemonic")
        ELSE IF ln.ins \in {"HALT", "RET"} THEN op
        ELSE IF ln.ins = "LDI" THEN Cat(op, Cat(RegB(a, 1), ValB8(a, 2, labels)))
        ELSE IF ln.ins = "LDI16" THEN Cat(op, Cat(PairB(a, 1), ValB16(a, 2, labels)))
        ELSE IF ln.ins = "MOV" THEN Cat(op, Cat(RegB(a, 1), RegB(a, 2)))
        ELSE IF ln.ins = "LDM" THEN Cat(op, Cat(RegB(a, 1), ValB16(a, 2, labels)))
        ELSE IF ln.ins = "STM" THEN Cat(op, Cat(ValB16(a, 1, labels), RegB(a, 2)))
        ELSE IF ln.ins \in {"LDR", "STR"}
        THEN Cat(op, Cat(RegB(a, 1), Cat(RegB(a, 2), RegB(a, 3))))
        ELSE IF ln.ins \in {"ADD", "ADC", "SUB", "SBC", "CMP", "AND", "OR", "XOR"}
        THEN Cat(op, Cat(RegB(a, 1), RegB(a, 2)))
        ELSE IF ln.ins \in {"INC", "DEC", "NOT", "SHL", "SHR", "PUSH", "POP"}
        THEN Cat(op, RegB(a, 1))
        ELSE IF ln.ins \in {"JMP", "JZ", "JNZ", "JC", "JNC", "CALL"}
        THEN Cat(op, ValB16(a, 1, labels))
        ELSE IF ln.ins = "IN" THEN Cat(op, Cat(RegB(a, 1), ValB8(a, 2, labels)))
        ELSE IF ln.ins = "OUT" THEN Cat(op, Cat(ValB8(a, 1, labels), RegB(a, 2)))
        ELSE IF ln.ins \in {"PUSH16", "POP16"}
        THEN IF Len(a) = 1 THEN Cat(op, PairB(a, 1))
             ELSE Cat(op, Cat(RegB(a, 1), RegB(a, 2)))
        ELSE Err("no encoding")

\* Pass 2 of the lines i .. j: their bytes in order (the first error wins).
RECURSIVE Pass2Of(_, _, _, _)
Pass2Of(lines, i, j, labels) ==
    IF i > j THEN Ok(<<>>)
    ELSE IF i = j
    THEN IF lines[i].ins = "" THEN Ok(<<>>) ELSE Encode(lines[i], labels)
    ELSE Cat(Pass2Of(lines, i, (i + j) \div 2, labels),
             Pass2Of(lines, (i + j) \div 2 + 1, j, labels))

\* Pass 2 from line i on: the bytes appended to out.
Pass2(lines, i, labels) == Pass2Of(lines, i, Len(lines), labels)

\* assemble_text: (out, labels), or the error raised; addrs are the ln.addr.
assemble_text(lines) ==
    LET p1 == Pass1(lines, 1, [n \in {} |-> 0], 0, <<>>)
        p2 == Pass2(lines, 1, p1.v.labels)
        bad(e) == [ok |-> FALSE, out |-> <<>>, labels |-> [n \in {} |-> 0],
                   addrs |-> <<>>, err |-> e]
    IN  IF ~p1.ok THEN bad(p1.err)
        ELSE IF ~p2.ok THEN bad(p2.err)
        ELSE [ok |-> TRUE, out |-> p2.v, labels |-> p1.v.labels,
              addrs |-> p1.v.addrs, err |-> ""]

\* ------------------------------------------------------------ code generator

\* AST nodes of the parser: Operand and Target (kind, value), Stmt (kind,
\* data), Param, FuncDef (ret is the operand of its return) and Program.
\* A register pair's value is its two letters, HI first.
Operand(kind, value) == [kind |-> kind, value |-> value]
Target(kind, value) == [kind |-> kind, value |-> value]
Stmt(kind, data) == [kind |-> kind, data |-> data]
Param(name, ptype) == [name |-> name, ptype |-> ptype]
FuncDef(name, params, body, ret) ==
    [name |-> name, params |-> params, body |-> body, ret |-> ret]
Program(funcs, main) == [funcs |-> funcs, main |-> main]

\* Codegen.__init__: one global scope, no function, nothing emitted. err is
\* the exception that ended compilation ("" while there is none).
NoneYet == [n \in {} |-> 0]
Codegen ==
    [scopes |-> <<NoneYet>>, current_func |-> "", main_asm |-> <<>>,
     func_asm |-> <<>>, data |-> <<>>, lbl_id |-> 0, funcs |-> NoneYet,
     err |-> ""]

\* raise: the first exception stays. In the operators below cg is the value
\* of self on entry, taken once.
Fail(self, e) ==
    CHOOSE done \in {(
    IF cg.err = "" THEN [cg EXCEPT !.err = e] ELSE cg
    ) : cg \in {self}} : TRUE

\* emit: to main_asm outside functions, to func_asm inside
emit(self, line) ==
    CHOOSE done \in {(
    IF cg.err # "" THEN cg
    ELSE IF cg.current_func = "" THEN [cg EXCEPT !.main_asm = Append(@, line)]
    ELSE [cg EXCEPT !.func_asm = Append(@, line)]
    ) : cg \in {self}} : TRUE

\* emit_data
emit_data(self, line) ==
    CHOOSE done \in {(
    IF cg.err # "" THEN cg ELSE [cg EXCEPT !.data = Append(@, line)]
    ) : cg \in {self}} : TRUE

\* new_label: the name f"{prefix}_{lbl_id}", and the generator after lbl_id += 1
new_label(cg, prefix) == prefix \o "_" \o ToString(cg.lbl_id)
LabelTaken(cg) == [cg EXCEPT !.lbl_id = @ + 1]

\* self.emit line after line
RECURSIVE EmitAll(_, _, _)
EmitAll(cg, lines, i) ==
    IF i > Len(lines) THEN cg ELSE EmitAll(emit(cg, lines[i]), lines, i + 1)

\* CHAR_MAP, the characters of codes 1 .. 36 and 56 .. 85 (the letters of
\* codes 37 .. 55 and the sign of code 79 are outside the texts modelled);
\* CHAR_TO_CODE is its inverse.
CHAR_MAP ==
    [c \in 0 .. 85 |->
        <<"", " ", ":", "!", "?", "*", "-", "+", "/", ",", ".", "A", "B", "C",
          "D", "E", "F", "G", "H", "I", "J", "K", "L", "M", "N", "O", "P", "Q",
          "R", "S", "T", "U", "V", "W", "X", "Y", "Z", "U+0411", "U+0413",
          "U+0414", "U+0416", "U+0417", "U+0418", "U+041B", "U+041F", "U+0424",
          "U+0426", "U+0427", "U+0428", "U+0429", "U+042A", "U+042B", "U+042C",
          "U+042D", "U+042E", "U+042F", "0", "1", "2", "3", "4", "5", "6", "7",
          "8", "9", "=", "(", ")", "_", "&", "@", "%", "$", "~", "|", "<", ">",
          ";", "U+2721", "^", "#", "[", "]", "{", "}">>[c + 1]]
CHAR_TO_CODE ==
    [ch \in {CHAR_MAP[c] : c \in DOMAIN CHAR_MAP} \ {""} |->
        CHOOSE c \in DOMAIN CHAR_MAP : CHAR_MAP[c] = ch]

\* A variant of char_code that gives the code after the glyph's.
char_code_Next(ch) ==
    IF ch \in DOMAIN CHAR_TO_CODE THEN Ok((CHAR_TO_CODE[ch] + 1) % 86)
    ELSE Err("unknown char")

\* char_code
char_code(ch) ==
    IF ch \in DOMAIN CHAR_TO_CODE THEN Ok(CHAR_TO_CODE[ch]) ELSE Err("unknown char")

\* lookup_var: the innermost scope that has the name (type "" for None).
NoVar == [type |-> "", byte |-> "", lo |-> "", hi |-> ""]
lookup_var(cg, name) ==
    LET has == {i \in 1 .. Len(cg.scopes) : name \in DOMAIN cg.scopes[i]}
    IN  IF has = {} THEN NoVar
        ELSE cg.scopes[CHOOSE i \in has : \A j \in has : j <= i][name]

\* const_u8, const_u16
const_u8(n) == n % 256
const_u16(n) == n % 65536

\* reg_ok, regpair_ok: letters of "ABCDEFGHIJKLMNOP"
reg_ok(r) == r \in {RegLetters[i] : i \in 1 .. 16}
regpair_ok(rp) == Len(rp) = 2 /\ reg_ok(rp[1]) /\ reg_ok(rp[2])

\* declare_var: a byte at label base, or two at base_lo and base_hi; inside
\* a function base is __<func>__<name>.
declare_var(self, name, vtype) ==
    CHOOSE done \in {(
    LET top == Len(cg.scopes)
        base == IF cg.current_func = "" THEN name
                ELSE "__" \o cg.current_func \o "__" \o name
        lo == base \o "_lo"
        hi == base \o "_hi"
        bind(c, info) == [c EXCEPT !.scopes[top] = (name :> info) @@ @]
    IN  IF cg.err # "" THEN cg
        ELSE IF name \in DOMAIN cg.scopes[top] THEN Fail(cg, "redeclared")
        ELSE IF vtype \notin {"u8", "u16", "char"} THEN Fail(cg, "unknown type")
        ELSE IF vtype \in {"u8", "char"}
        THEN bind(emit_data(cg, Line(<<base>>, "$", <<Num(0)>>)),
                  [type |-> vtype, byte |-> base, lo |-> "", hi |-> ""])
        ELSE bind(emit_data(emit_data(cg, Line(<<lo>>, "$", <<Num(0)>>)),
                            Line(<<hi>>, "$", <<Num(0)>>)),
                  [type |-> vtype, byte |-> "", lo |-> lo, hi |-> hi])
    ) : cg \in {self}} : TRUE

\* vartype, varlabel_u8, varlabels_u16: the value, or the ValueError
vartype(cg, name) ==
    IF lookup_var(cg, name).type = "" THEN Err("unknown variable")
    ELSE Ok(lookup_var(cg, name).type)

varlabel_u8(cg, name) ==
    IF ~vartype(cg, name).ok THEN vartype(cg, name)
    ELSE IF vartype(cg, name).v \notin {"u8", "char"} THEN Err("expected u8/char")
    ELSE Ok(lookup_var(cg, name).byte)

varlabels_u16(cg, name) ==
    IF ~vartype(cg, name).ok THEN vartype(cg, name)
    ELSE IF vartype(cg, name).v # "u16" THEN Err("expected u16")
    ELSE Ok(<<lookup_var(cg, name).lo, lookup_var(cg, name).hi>>)

\* is_u16_operand, width_of_operand, width_of_target
is_u16_operand(cg, op) ==
    IF op.kind = "var"
    THEN IF vartype(cg, op.value).ok THEN Ok(vartype(cg, op.value).v = "u16")
         ELSE vartype(cg, op.value)
    ELSE IF op.kind = "regpair" THEN Ok(TRUE)
    ELSE IF op.kind = "num" THEN Ok(op.value > 255)
    ELSE Ok(FALSE)

width_of_operand(cg, op) ==
    IF ~is_u16_operand(cg, op).ok THEN is_u16_operand(cg, op)
    ELSE Ok(IF is_u16_operand(cg, op).v THEN 16 ELSE 8)

width_of_target(cg, target) ==
    IF target.kind = "reg" THEN Ok(8)
    ELSE IF target.kind = "regpair" THEN Ok(16)
    ELSE IF target.kind = "var"
    THEN IF vartype(cg, target.value).ok
         THEN Ok(IF vartype(cg, target.value).v = "u16" THEN 16 ELSE 8)
         ELSE vartype(cg, target.value)
    ELSE IF target.kind = "mem" THEN Ok(8)
    ELSE Err("unknown target kind")

\* load_mem_u8_into: a variable's address goes through G:H
load_mem_u8_into(self, addr, dst) ==
    CHOOSE done \in {(
    LET a16 == varlabels_u16(cg, addr.value)
    IN  IF cg.err # "" THEN cg
        ELSE IF ~reg_ok(dst) THEN Fail(cg, "invalid register")
        ELSE IF addr.kind = "num"
        THEN emit(cg, I2("LDM", Id(dst), Num(const_u16(addr.value))))
        ELSE IF addr.kind = "regpair"
        THEN IF ~regpair_ok(addr.value) THEN Fail(cg, "invalid register pair")
             ELSE emit(cg, I3("LDR", Id(dst), Id(addr.value[1]), Id(addr.value[2])))
        ELSE IF addr.kind = "var"
        THEN IF ~a16.ok THEN Fail(cg, a16.err)
             ELSE EmitAll(cg, <<I2("LDM", Id("H"), Id(a16.v[1])),
                                I2("LDM", Id("G"), Id(a16.v[2])),
                                I3("LDR", Id(dst), Id("G"), Id("H"))>>, 1)
        ELSE Fail(cg, "invalid mem address kind")
    ) : cg \in {self}} : TRUE

\* store_mem_u8_from
store_mem_u8_from(self, addr, src) ==
    CHOOSE done \in {(
    LET a16 == varlabels_u16(cg, addr.value)
    IN  IF cg.err # "" THEN cg
        ELSE IF ~reg_ok(src) THEN Fail(cg, "invalid register")
        ELSE IF addr.kind = "num"
        THEN emit(cg, I2("STM", Num(const_u16(addr.value)), Id(src)))
        ELSE IF addr.kind = "regpair"
        THEN IF ~regpair_ok(addr.value) THEN Fail(cg, "invalid register pair")
             ELSE emit(cg, I3("STR", Id(addr.value[1]), Id(addr.value[2]), Id(src)))
        ELSE IF addr.kind = "var"
        THEN IF ~a16.ok THEN Fail(cg, a16.err)
             ELSE EmitAll(cg, <<I2("LDM", Id("H"), Id(a16.v[1])),
                                I2("LDM", Id("G"), Id(a16.v[2])),
                                I3("STR", Id("G"), Id("H"), Id(src))>>, 1)
        ELSE Fail(cg, "invalid mem address kind")
    ) : cg \in {self}} : TRUE

\* load_u8_into (avoid is checked by the callers that pass it, see
\* load_u8_avoiding)
load_u8_into(self, op, dst) ==
    CHOOSE done \in {(
    IF cg.err # "" THEN cg
    ELSE IF ~reg_ok(dst) THEN Fail(cg, "invalid register")
    ELSE IF op.kind = "num"
    THEN emit(cg, I2("LDI", Id(dst), Num(const_u8(op.value))))
    ELSE IF op.kind = "char"
    THEN IF ~char_code(op.value).ok THEN Fail(cg, "unknown char")
         ELSE emit(cg, I2("LDI", Id(dst), Num(char_code(op.value).v)))
    ELSE IF op.kind = "reg"
    THEN IF ~reg_ok(op.value) THEN Fail(cg, "invalid register")
         ELSE IF op.value # dst THEN emit(cg, I2("MOV", Id(dst), Id(op.value)))
         ELSE cg
    ELSE IF op.kind = "var"
    THEN IF ~varlabel_u8(cg, op.value).ok
         THEN Fail(cg, varlabel_u8(cg, op.value).err)
         ELSE emit(cg, I2("LDM", Id(dst), Id(varlabel_u8(cg, op.value).v)))
    ELSE IF op.kind = "mem" THEN load_mem_u8_into(cg, op.value, dst)
    ELSE IF op.kind = "in"
    THEN IF op.value.kind = "num"
         THEN emit(cg, I2("IN", Id(dst), Num(op.value.value % 256)))
         ELSE Fail(cg, "in(port) requires constant port")
    ELSE Fail(cg, "unsupported operand for u8 load")
    ) : cg \in {self}} : TRUE

\* load_u8_into(op, dst, avoid=...)
load_u8_avoiding(cg, op, dst, avoid) ==
    IF dst = avoid THEN Fail(cg, "dst conflicts with avoid")
    ELSE load_u8_into(cg, op, dst)

\* store_u8_from
store_u8_from(self, target, src_reg) ==
    CHOOSE done \in {(
    IF cg.err # "" THEN cg
    ELSE IF ~reg_ok(src_reg) THEN Fail(cg, "invalid register")
    ELSE IF target.kind = "reg"
    THEN IF ~reg_ok(target.value) THEN Fail(cg, "invalid register")
         ELSE IF target.value # src_reg
         THEN emit(cg, I2("MOV", Id(target.value), Id(src_reg)))
         ELSE cg
    ELSE IF target.kind = "var"
    THEN IF ~varlabel_u8(cg, target.value).ok
         THEN Fail(cg, varlabel_u8(cg, target.value).err)
         ELSE emit(cg, I2("STM", Id(varlabel_u8(cg, target.value).v), Id(src_reg)))
    ELSE IF target.kind = "mem" THEN store_mem_u8_from(cg, target.value, src_reg)
    ELSE Fail(cg, "unsupported u8 store target")
    ) : cg \in {self}} : TRUE

\* load_u16_into: the low byte is loaded first
load_u16_into(self, op, hi_reg, lo_reg) ==
    CHOOSE done \in {(
    IF cg.err # "" THEN cg
    ELSE IF ~reg_ok(hi_reg) \/ ~reg_ok(lo_reg) THEN Fail(cg, "invalid register")
    ELSE IF op.kind = "var"
    THEN IF ~varlabels_u16(cg, op.value).ok
         THEN Fail(cg, varlabels_u16(cg, op.value).err)
         ELSE emit(emit(cg, I2("LDM", Id(lo_reg), Id(varlabels_u16(cg, op.value).v[1]))),
                   I2("LDM", Id(hi_reg), Id(varlabels_u16(cg, op.value).v[2])))
    ELSE IF op.kind = "num"
    THEN emit(emit(cg, I2("LDI", Id(lo_reg), Num(const_u16(op.value) % 256))),
              I2("LDI", Id(hi_reg), Num((const_u16(op.value) \div 256) % 256)))
    ELSE IF op.kind = "regpair"
    THEN IF ~regpair_ok(op.value) THEN Fail(cg, "invalid register pair")
         ELSE LET c1 == IF op.value[1] # hi_reg
                        THEN emit(cg, I2("MOV", Id(hi_reg), Id(op.value[1])))
                        ELSE cg
              IN  IF op.value[2] # lo_reg
                  THEN emit(c1, I2("MOV", Id(lo_reg), Id(op.value[2])))
                  ELSE c1
    ELSE Fail(cg, "unsupported u16 operand")
    ) : cg \in {self}} : TRUE

\* A variant of the u16 jump sequences that lowers every operator as "<".
U16Jumps_AlwaysLess(op, false_label, eq_hi, cont) ==
    <<I2("CMP", Id("A"), Id("B")), I1("JC", Id(cont)), I1("JZ", Id(eq_hi)),
      I1("JMP", Id(false_label)), Lbl(eq_hi), I2("CMP", Id("C"), Id("D")),
      I1("JNC", Id(false_label)), Lbl(cont)>>

\* emit_cond_jump_false_u16, the lines after the loads: CMP of the high
\* bytes, then of the low bytes (<<>> for an operator that is not supported)
U16Jumps(op, false_label, eq_hi, cont) ==
    IF op = "=="
    THEN <<I2("CMP", Id("A"), Id("B")), I1("JNZ", Id(false_label)), I2("CMP", Id("C"), Id("D")), I1("JNZ", Id(false_label))>>
    ELSE IF op = "!="
    THEN <<I2("CMP", Id("A"), Id("B")), I1("JNZ", Id(cont)), I2("CMP", Id("C"), Id("D")), I1("JNZ", Id(cont)), I1("JMP", Id(false_label)), Lbl(cont)>>
    ELSE IF op = "<"
    THEN <<I2("CMP", Id("A"), Id("B")), I1("JC", Id(cont)), I1("JZ", Id(eq_hi)), I1("JMP", Id(false_label)), Lbl(eq_hi), I2("CMP", Id("C"), Id("D")), I1("JNC", Id(false_label)), Lbl(cont)>>
    ELSE IF op = ">="
    THEN <<I2("CMP", Id("A"), Id("B")), I1("JC", Id(false_label)), I1("JZ", Id(eq_hi)), I1("JMP", Id(cont)), Lbl(eq_hi), I2("CMP", Id("C"), Id("D")), I1("JC", Id(false_label)), Lbl(cont)>>
    ELSE IF op = ">"
    THEN <<I2("CMP", Id("A"), Id("B")), I1("JC", Id(false_label)), I1("JZ", Id(eq_hi)), I1("JMP", Id(cont)), Lbl(eq_hi), I2("CMP", Id("C"), Id("D")), I1("JC", Id(false_label)), I1("JZ", Id(false_label)), Lbl(cont)>>
    ELSE IF op = "<="
    THEN <<I2("CMP", Id("A"), Id("B")), I1("JC", Id(cont)), I1("JZ", Id(eq_hi)), I1("JMP", Id(false_label)), Lbl(eq_hi), I2("CMP", Id("C"), Id("D")), I1("JC", Id(cont)), I1("JZ", Id(cont)), I1("JMP", Id(false_label)), Lbl(cont)>>
    ELSE <<>>

\* emit_cond_jump_false_u16: left in A (hi) and C (lo), right in B and D; the
\* labels u16_eq_hi and u16_true are taken whatever the operator
emit_cond_jump_false_u16(self, cond, false_label) ==
    CHOOSE done \in {(
    LET eq_hi == new_label(cg, "u16_eq_hi")
        cont == new_label(LabelTaken(cg), "u16_true")
        jumps == U16Jumps(cond.op, false_label, eq_hi, cont)
    IN  IF cg.err # "" THEN cg
        ELSE IF jumps = <<>> THEN Fail(cg, "unsupported u16 condition operator")
        ELSE EmitAll(LabelTaken(LabelTaken(cg)), jumps, 1)
    ) : cg \in {load_u16_into(load_u16_into(self, cond.left, "A", "C"),
                              cond.right, "B", "D")}} : TRUE

\* emit_cond_jump_false, the lines after the loads
U8Jumps(op, false_label, true_label) ==
    IF op = "=="
    THEN <<I2("CMP", Id("A"), Id("B")), I1("JNZ", Id(false_label))>>
    ELSE IF op = "!="
    THEN <<I2("CMP", Id("A"), Id("B")), I1("JZ", Id(false_label))>>
    ELSE IF op = "<"
    THEN <<I2("CMP", Id("A"), Id("B")), I1("JNC", Id(false_label))>>
    ELSE IF op = ">="
    THEN <<I2("CMP", Id("A"), Id("B")), I1("JC", Id(false_label))>>
    ELSE IF op = ">"
    THEN <<I2("CMP", Id("A"), Id("B")), I1("JC", Id(false_label)), I1("JZ", Id(false_label))>>
    ELSE IF op = "<="
    THEN <<I2("CMP", Id("A"), Id("B")), I1("JC", Id(true_label)), I1("JZ", Id(true_label)), I1("JMP", Id(false_label)), Lbl(true_label)>>
    ELSE <<>>

\* emit_cond_jump_false, 8-bit: left into A, right into B, CMP A, B; the
\* label cond_true is taken for <= only
CondJump8(self, cond, false_label) ==
    CHOOSE done \in {(
    LET jumps == U8Jumps(cond.op, false_label, new_label(cg, "cond_true"))
    IN  IF cg.err # "" THEN cg
        ELSE IF jumps = <<>>
        THEN Fail(emit(cg, I2("CMP", Id("A"), Id("B"))),
                  "unsupported condition operator")
        ELSE EmitAll(IF cond.op = "<=" THEN LabelTaken(cg) ELSE cg, jumps, 1)
    ) : cg \in {load_u8_avoiding(load_u8_into(self, cond.left, "A"),
                                 cond.right, "B", "A")}} : TRUE

\* emit_cond_jump_false
emit_cond_jump_false(self, cond, false_label) ==
    CHOOSE done \in {(
    LET l16 == is_u16_operand(cg, cond.left)
        r16 == is_u16_operand(cg, cond.right)
        allowed == {"var", "num", "regpair"}
        notu16(op) == op.kind = "var" /\ vartype(cg, op.value).v # "u16"
    IN  IF cg.err # "" THEN cg
        ELSE IF ~l16.ok THEN Fail(cg, l16.err)
        ELSE IF ~l16.v /\ ~r16.ok THEN Fail(cg, r16.err)
        ELSE IF l16.v \/ r16.v
        THEN IF cond.left.kind \notin allowed \/ cond.right.kind \notin allowed
             THEN Fail(cg, "u16 condition supports only u16 vars/regpairs/consts")
             ELSE IF notu16(cond.left) THEN Fail(cg, "left operand must be u16")
             ELSE IF cond.right.kind = "var" /\ ~vartype(cg, cond.right.value).ok
             THEN Fail(cg, "unknown variable")
             ELSE IF notu16(cond.right) THEN Fail(cg, "right operand must be u16")
             ELSE emit_cond_jump_false_u16(cg, cond, false_label)
        ELSE CondJump8(cg, cond, false_label)
    ) : cg \in {self}} : TRUE

\* choose_temp: the first of B, C, D, E, F that is not avoid
choose_temp(avoid) == IF avoid # "B" THEN "B" ELSE "C"

\* target_as_operand
target_as_operand(target) ==
    IF target.kind \in {"var", "reg", "mem"}
    THEN Ok(Operand(target.kind, target.value))
    ELSE Err("cannot treat target as operand")

\* for _ in range(amt): emit
RECURSIVE EmitTimes(_, _, _)
EmitTimes(cg, line, amt) ==
    IF amt <= 0 THEN cg ELSE EmitTimes(emit(cg, line), line, amt - 1)

\* asm_op of apply_opassign_u8 ("" for the KeyError of another operator)
AsmOp(op) ==
    IF op = "+=" THEN "ADD" ELSE IF op = "-=" THEN "SUB" ELSE IF op = "&=" THEN "AND"
    ELSE IF op = "|=" THEN "OR" ELSE IF op = "^=" THEN "XOR" ELSE ""

\* load_u8_into(self.target_as_operand(target), "A")
LoadTarget(cg, target) ==
    IF ~target_as_operand(target).ok THEN Fail(cg, target_as_operand(target).err)
    ELSE load_u8_into(cg, target_as_operand(target).v, "A")

\* apply_opassign_u8
apply_opassign_u8(self, target, op, rhs) ==
    CHOOSE done \in {(
    LET instr == IF op = "<<=" THEN "SHL" ELSE "SHR"
        tmp == choose_temp(target.value)
    IN  IF cg.err # "" THEN cg
        ELSE IF op \in {"<<=", ">>="}
        THEN IF rhs.kind # "num" THEN Fail(cg, "shift amount must be constant")
             ELSE IF target.kind = "reg"
             THEN IF ~reg_ok(target.value) THEN Fail(cg, "invalid register")
                  ELSE EmitTimes(cg, I1(instr, Id(target.value)), rhs.value)
             ELSE store_u8_from(
                    EmitTimes(LoadTarget(cg, target), I1(instr, Id("A")), rhs.value),
                    target, "A")
        ELSE IF target.kind = "reg"
        THEN IF ~reg_ok(target.value) THEN Fail(cg, "invalid register")
             ELSE IF AsmOp(op) = ""
             THEN Fail(load_u8_avoiding(cg, rhs, tmp, target.value), "KeyError")
             ELSE emit(load_u8_avoiding(cg, rhs, tmp, target.value),
                       I2(AsmOp(op), Id(target.value), Id(tmp)))
        ELSE IF AsmOp(op) = ""
        THEN Fail(load_u8_avoiding(LoadTarget(cg, target), rhs, "B", "A"), "KeyError")
        ELSE store_u8_from(
                emit(load_u8_avoiding(LoadTarget(cg, target), rhs, "B", "A"),
                     I2(AsmOp(op), Id("A"), Id("B"))),
                target, "A")
    ) : cg \in {self}} : TRUE

\* a u16 postfix step on the low byte only, no carry or borrow into A
Postfix16_NoCarry(self, name, op) ==
    CHOOSE done \in {(
    LET v16 == varlabels_u16(cg, name)
        mid == IF op = "++" THEN <<I1("INC", Id("B"))>> ELSE <<I1("DEC", Id("B"))>>
    IN  EmitAll(LabelTaken(cg),
                <<I2("LDM", Id("B"), Id(v16.v[1])), I2("LDM", Id("A"), Id(v16.v[2]))>>
                \o mid \o
                <<I2("STM", Id(v16.v[1]), Id("B")), I2("STM", Id(v16.v[2]), Id("A"))>>,
                1)
    ) : cg \in {self}} : TRUE

\* apply_postfix, a u16 variable: through A (hi) and B (lo)
Postfix16(self, name, op) ==
    CHOOSE done \in {(
    LET v16 == varlabels_u16(cg, name)
        lbl == new_label(cg, IF op = "++" THEN "u16_inc_done" ELSE "u16_dec_no_borrow")
        mid == IF op = "++"
               THEN <<I1("INC", Id("B")), I1("JNZ", Id(lbl)), I1("INC", Id("A")),
                      Lbl(lbl)>>
               ELSE <<I2("LDI", Id("C"), Num(0)), I2("CMP", Id("B"), Id("C")),
                      I1("JNZ", Id(lbl)), I1("DEC", Id("A")), Lbl(lbl),
                      I1("DEC", Id("B"))>>
    IN  EmitAll(LabelTaken(cg),
                <<I2("LDM", Id("B"), Id(v16.v[1])), I2("LDM", Id("A"), Id(v16.v[2]))>>
                \o mid \o
                <<I2("STM", Id(v16.v[1]), Id("B")), I2("STM", Id(v16.v[2]), Id("A"))>>,
                1)
    ) : cg \in {self}} : TRUE

\* apply_postfix
apply_postfix(self, target, op) ==
    CHOOSE done \in {(
    IF cg.err # "" THEN cg
    ELSE IF op \notin {"++", "--"} THEN Fail(cg, "invalid postfix op")
    ELSE IF target.kind = "reg"
    THEN IF ~reg_ok(target.value) THEN Fail(cg, "invalid register")
         ELSE emit(cg, I1(IF op = "++" THEN "INC" ELSE "DEC", Id(target.value)))
    ELSE IF target.kind = "var" /\ ~vartype(cg, target.value).ok
    THEN Fail(cg, "unknown variable")
    ELSE IF target.kind = "var" /\ vartype(cg, target.value).v = "u16"
    THEN Postfix16(cg, target.value, op)
    ELSE store_u8_from(
            emit(LoadTarget(cg, target), I1(IF op = "++" THEN "INC" ELSE "DEC", Id("A"))),
            target, "A")
    ) : cg \in {self}} : TRUE

\* emit_push_arg: a byte through A, a 16-bit value through A:B
emit_push_arg(cg, arg_op, arg_type) ==
    IF arg_type \in {"u8", "char"}
    THEN emit(load_u8_into(cg, arg_op, "A"), I1("PUSH", Id("A")))
    ELSE IF arg_type = "u16"
    THEN emit(load_u16_into(cg, arg_op, "A", "B"), I1("PUSH16", Id("AB")))
    ELSE Fail(cg, "invalid arg type")

\* for arg_op, p in zip(reversed(args), reversed(params)): from the i-th down
RECURSIVE PushArgs(_, _, _, _)
PushArgs(cg, args, params, i) ==
    IF i = 0 THEN cg
    ELSE PushArgs(emit_push_arg(cg, args[i], params[i].type), args, params, i - 1)

\* compile_call_and_pop: pushes, CALL, then POP A or POP16 AB
compile_call_and_pop(self, call, expected_width) ==
    CHOOSE done \in {(
    LET fname == call.value.name
        args == call.value.args
        info == cg.funcs[fname]
        c1 == emit(PushArgs(cg, args, info.params, Len(args)), I1("CALL", Id(fname)))
    IN  IF cg.err # "" THEN cg
        ELSE IF fname \notin DOMAIN cg.funcs THEN Fail(cg, "unknown function")
        ELSE IF Len(args) # Len(info.params) THEN Fail(cg, "argument count")
        ELSE IF expected_width # info.ret_width THEN Fail(c1, "return width")
        ELSE IF info.ret_width = 8 THEN emit(c1, I1("POP", Id("A")))
        ELSE emit(c1, I1("POP16", Id("AB")))
    ) : cg \in {self}} : TRUE

\* apply_assign, call expression: the result in A, or A (hi) and B (lo),
\* goes to the target
StoreResult(self, target, expected) ==
    CHOOSE done \in {(
    LET t16 == varlabels_u16(cg, target.value)
    IN  IF expected = 8 THEN store_u8_from(cg, target, "A")
        ELSE IF target.kind = "regpair"
        THEN IF ~regpair_ok(target.value) THEN Fail(cg, "invalid register pair")
             ELSE emit(emit(cg, I2("MOV", Id(target.value[1]), Id("A"))),
                       I2("MOV", Id(target.value[2]), Id("B")))
        ELSE IF target.kind = "var" /\ vartype(cg, target.value).ok
                /\ vartype(cg, target.value).v = "u16"
        THEN emit(emit(cg, I2("STM", Id(t16.v[1]), Id("B"))),
                  I2("STM", Id(t16.v[2]), Id("A")))
        ELSE Fail(cg, "cannot assign 16-bit return value")
    ) : cg \in {self}} : TRUE

\* apply_assign
apply_assign(self, target, rhs) ==
    CHOOSE done \in {(
    LET expected == width_of_target(cg, target)
        t16 == varlabels_u16(cg, target.value)
        r16 == varlabels_u16(cg, rhs.value)
        u16var == target.kind = "var" /\ vartype(cg, target.value).ok
                    /\ vartype(cg, target.value).v = "u16"
    IN  IF cg.err # "" THEN cg
        ELSE IF rhs.kind = "call"
        THEN IF ~expected.ok THEN Fail(cg, expected.err)
             ELSE StoreResult(compile_call_and_pop(cg, rhs, expected.v),
                              target, expected.v)
        ELSE IF target.kind = "regpair"
        THEN IF ~regpair_ok(target.value) THEN Fail(cg, "invalid register pair")
             ELSE IF rhs.kind = "regpair"
             THEN IF ~regpair_ok(rhs.value) THEN Fail(cg, "invalid register pair")
                  ELSE emit(emit(cg, I2("MOV", Id(target.value[1]), Id(rhs.value[1]))),
                            I2("MOV", Id(target.value[2]), Id(rhs.value[2])))
             ELSE IF rhs.kind = "var"
             THEN IF ~r16.ok THEN Fail(cg, r16.err)
                  ELSE emit(emit(cg, I2("LDM", Id(target.value[2]), Id(r16.v[1]))),
                            I2("LDM", Id(target.value[1]), Id(r16.v[2])))
             ELSE IF rhs.kind = "num"
             THEN emit(cg, I2("LDI16", Id(target.value[1] \o target.value[2]),
                              Num(const_u16(rhs.value))))
             ELSE Fail(cg, "cannot assign to regpair")
        ELSE IF target.kind = "var" /\ ~vartype(cg, target.value).ok
        THEN Fail(cg, "unknown variable")
        ELSE IF u16var
        THEN IF rhs.kind = "regpair"
             THEN IF ~regpair_ok(rhs.value) THEN Fail(cg, "invalid register pair")
                  ELSE emit(emit(cg, I2("STM", Id(t16.v[1]), Id(rhs.value[2]))),
                            I2("STM", Id(t16.v[2]), Id(rhs.value[1])))
             ELSE IF rhs.kind = "var"
             THEN IF ~r16.ok THEN Fail(cg, r16.err)
                  ELSE emit(emit(emit(emit(cg,
                            I2("LDM", Id("B"), Id(r16.v[1]))),
                            I2("LDM", Id("A"), Id(r16.v[2]))),
                            I2("STM", Id(t16.v[1]), Id("B"))),
                            I2("STM", Id(t16.v[2]), Id("A")))
             ELSE IF rhs.kind = "num"
             THEN emit(emit(emit(cg,
                       I2("LDI16", Id("AB"), Num(const_u16(rhs.value)))),
                       I2("STM", Id(t16.v[1]), Id("B"))),
                       I2("STM", Id(t16.v[2]), Id("A")))
             ELSE Fail(cg, "cannot assign to u16 variable")
        ELSE store_u8_from(load_u8_into(cg, rhs, "A"), target, "A")
    ) : cg \in {self}} : TRUE

\* apply_assign_not
apply_assign_not(cg, target, rhs) ==
    store_u8_from(emit(load_u8_into(cg, rhs, "A"), I1("NOT", Id("A"))), target, "A")

\* apply_out
apply_out(self, port, val) ==
    CHOOSE done \in {(
    IF cg.err # "" THEN cg
    ELSE IF port.kind # "num" THEN Fail(cg, "out requires constant port")
    ELSE IF val.kind = "reg"
    THEN IF ~reg_ok(val.value) THEN Fail(cg, "invalid register")
         ELSE emit(cg, I2("OUT", Num(port.value % 256), Id(val.value)))
    ELSE emit(load_u8_into(cg, val, "A"), I2("OUT", Num(port.value % 256), Id("A")))
    ) : cg \in {self}} : TRUE

RECURSIVE compile_stmt_list(_, _, _)

\* compile_stmt, kind "if": the labels else and endif are taken first
CompileIf(self, d) ==
    CHOOSE done \in {(
    LET lbl_else == new_label(cg, "else")
        lbl_end == new_label(LabelTaken(cg), "endif")
        c2 == LabelTaken(LabelTaken(cg))
    IN  IF ~d.has_else
        THEN emit(compile_stmt_list(emit_cond_jump_false(c2, d.cond, lbl_end),
                                    d.then, 1),
                  Lbl(lbl_end))
        ELSE emit(compile_stmt_list(
                    EmitAll(compile_stmt_list(
                                emit_cond_jump_false(c2, d.cond, lbl_else),
                                d.then, 1),
                            <<I1("JMP", Id(lbl_end)), Lbl(lbl_else)>>, 1),
                    d.else, 1),
                  Lbl(lbl_end))
    ) : cg \in {self}} : TRUE

\* compile_stmt, kind "while"
CompileWhile(self, d) ==
    CHOOSE done \in {(
    LET lbl_begin == new_label(cg, "while_begin")
        lbl_end == new_label(LabelTaken(cg), "while_end")
        c2 == LabelTaken(LabelTaken(cg))
    IN  EmitAll(compile_stmt_list(
                    emit_cond_jump_false(emit(c2, Lbl(lbl_begin)), d.cond, lbl_end),
                    d.body, 1),
                <<I1("JMP", Id(lbl_begin)), Lbl(lbl_end)>>, 1)
    ) : cg \in {self}} : TRUE

\* compile_stmt
compile_stmt(self, st) ==
    CHOOSE done \in {(
    IF cg.err # "" THEN cg
    ELSE IF st.kind = "let" THEN declare_var(cg, st.data.name, st.data.vtype)
    ELSE IF st.kind = "assign" THEN apply_assign(cg, st.data.target, st.data.rhs)
    ELSE IF st.kind = "halt" THEN emit(cg, I0("HALT"))
    ELSE IF st.kind = "assign_not"
    THEN apply_assign_not(cg, st.data.target, st.data.rhs)
    ELSE IF st.kind = "opassign"
    THEN IF st.data.target.kind = "var" /\ ~vartype(cg, st.data.target.value).ok
         THEN Fail(cg, "unknown variable")
         ELSE IF st.data.target.kind = "var"
                 /\ vartype(cg, st.data.target.value).v = "u16"
         THEN Fail(cg, "u16 op-assign not implemented")
         ELSE IF st.data.target.kind = "regpair"
         THEN Fail(cg, "regpair op-assign not implemented")
         ELSE apply_opassign_u8(cg, st.data.target, st.data.op, st.data.rhs)
    ELSE IF st.kind = "postfix" THEN apply_postfix(cg, st.data.target, st.data.op)
    ELSE IF st.kind = "out" THEN apply_out(cg, st.data.port, st.data.val)
    ELSE IF st.kind = "if" THEN CompileIf(cg, st.data)
    ELSE IF st.kind = "while" THEN CompileWhile(cg, st.data)
    ELSE Fail(cg, "unknown stmt kind")
    ) : cg \in {self}} : TRUE

\* compile_stmt_list, from the i-th statement on
compile_stmt_list(cg, stmts, i) ==
    IF i > Len(stmts) \/ ~Forced(cg) THEN cg
    ELSE compile_stmt_list(compile_stmt(cg, stmts[i]), stmts, i + 1)

\* register_funcs, from the i-th function on: ret_width 0 stands for None
RECURSIVE register_funcs(_, _, _)
register_funcs(self, funcs, i) ==
    CHOOSE done \in {(
    IF i > Len(funcs) \/ cg.err # "" THEN cg
    ELSE IF funcs[i].name \in DOMAIN cg.funcs THEN Fail(cg, "function redeclared")
    ELSE register_funcs(
            [cg EXCEPT !.funcs = (funcs[i].name :>
                [params |-> [k \in 1 .. Len(funcs[i].params) |->
                                [name |-> funcs[i].params[k].name,
                                 type |-> funcs[i].params[k].ptype]],
                 ret_width |-> 0]) @@ @],
            funcs, i + 1)
    ) : cg \in {self}} : TRUE

\* compile_func: for p in f.params: declare_var
RECURSIVE DeclareParams(_, _, _)
DeclareParams(cg, params, i) ==
    IF i > Len(params) THEN cg
    ELSE DeclareParams(declare_var(cg, params[i].name, params[i].ptype),
                       params, i + 1)

\* compile_func: for p in f.params: POP A / POP16 AB, then STM to its labels
RECURSIVE PopParams(_, _, _)
PopParams(self, params, i) ==
    CHOOSE done \in {(
    IF i > Len(params) \/ cg.err # "" THEN cg
    ELSE IF params[i].ptype \in {"u8", "char"}
    THEN PopParams(
            emit(emit(cg, I1("POP", Id("A"))),
                 I2("STM", Id(varlabel_u8(cg, params[i].name).v), Id("A"))),
            params, i + 1)
    ELSE IF params[i].ptype = "u16"
    THEN PopParams(
            emit(emit(emit(cg, I1("POP16", Id("AB"))),
                 I2("STM", Id(varlabels_u16(cg, params[i].name).v[1]), Id("B"))),
                 I2("STM", Id(varlabels_u16(cg, params[i].name).v[2]), Id("A"))),
            params, i + 1)
    ELSE Fail(cg, "invalid param type")
    ) : cg \in {self}} : TRUE

\* compile_func as far as the body: scope pushed, label, POP16 OP, the
\* parameters declared and popped, the statements
FuncBody(cg, f) ==
    compile_stmt_list(
        PopParams(
            DeclareParams(
                emit(emit([cg EXCEPT !.current_func = f.name,
                                     !.scopes = Append(@, NoneYet)],
                          Lbl(f.name)),
                     I1("POP16", Id("OP"))),
                f.params, 1),
            f.params, 1),
        f.body, 1)

\* compile_func from the return on: ret_width recorded, the value pushed,
\* PUSH16 OP, RET, scope popped
FuncReturn(self, f) ==
    CHOOSE done \in {(
    LET retw == width_of_operand(cg, f.ret)
        c4 == [cg EXCEPT !.funcs[f.name].ret_width = retw.v]
        c5 == IF retw.v = 8
              THEN emit(load_u8_into(c4, f.ret, "A"), I1("PUSH", Id("A")))
              ELSE emit(load_u16_into(c4, f.ret, "A", "B"), I1("PUSH16", Id("AB")))
    IN  IF cg.err # "" THEN cg
        ELSE IF ~retw.ok THEN Fail(cg, retw.err)
        ELSE [emit(emit(c5, I1("PUSH16", Id("OP"))), I0("RET"))
                EXCEPT !.scopes = SubSeq(@, 1, Len(@) - 1), !.current_func = ""]
    ) : cg \in {self}} : TRUE

compile_func(cg, f) == FuncReturn(FuncBody(cg, f), f)

\* compile_program: for f in prog.funcs: compile_func
RECURSIVE CompileFuncs(_, _, _)
CompileFuncs(cg, funcs, i) ==
    IF i > Len(funcs) THEN cg
    ELSE CompileFuncs(compile_func(cg, funcs[i]), funcs, i + 1)

\* compile_program: signatures, functions, then main in the global scope
compile_program(cg, prog) ==
    compile_stmt_list(
        CompileFuncs(register_funcs(cg, prog.funcs, 1), prog.funcs, 1),
        prog.main, 1)

\* render: JMP __start, the functions, __start:, main, HALT, the data
render(cg) ==
    <<I1("JMP", Id("__start"))>> \o cg.func_asm \o <<Lbl("__start")>>
    \o cg.main_asm \o <<I0("HALT")>> \o cg.data

\* compile_highlang_text, the code generator's part: the assembly text, or
\* the error
compile_highlang(prog) ==
    CHOOSE done \in {(
    IF cg.err # "" THEN Err(cg.err) ELSE Ok(render(cg))
    ) : cg \in {compile_program(Codegen, prog)}} : TRUE

\* ------------------------------------------------------------ tokenizer

\* A HighLang source text is its sequence of characters. The character
\* classes of the regular expressions: \s, \d, [A-Za-z], \w.
SpaceCh == {" ", "\n", "\t", "\r"}
DigitCh == <<"0", "1", "2", "3", "4", "5", "6", "7", "8", "9">>
LowerCh == <<"a", "b", "c", "d", "e", "f", "g", "h", "i", "j", "k", "l", "m", "n", "o", "p", "q", "r", "s", "t", "u", "v", "w", "x", "y", "z">>
UpperCh == <<"A", "B", "C", "D", "E", "F", "G", "H", "I", "J", "K", "L", "M", "N", "O", "P", "Q", "R", "S", "T", "U", "V", "W", "X", "Y", "Z">>
AlphaCh == {LowerCh[k] : k \in 1 .. 26} \cup {UpperCh[k] : k \in 1 .. 26}
WordCh == AlphaCh \cup {DigitCh[k] : k \in 1 .. 10} \cup {"_"}

\* TOKEN_RE: the alternatives in the order the expression tries them.
\* "word" is \b...\b, "bword" is \b... and "lit" the bare text.
TOKEN_RE ==
    <<[kind |-> "WS", form |-> "ws", lit |-> <<>>],
      [kind |-> "COMMENT", form |-> "comment", lit |-> <<>>],
      [kind |-> "LET", form |-> "bword", lit |-> <<"l", "e", "t", ":">>],
      [kind |-> "IF", form |-> "word", lit |-> <<"i", "f">>],
      [kind |-> "ELSE", form |-> "word", lit |-> <<"e", "l", "s", "e">>],
      [kind |-> "WHILE", form |-> "word", lit |-> <<"w", "h", "i", "l", "e">>],
      [kind |-> "REG", form |-> "word", lit |-> <<"r", "e", "g">>],
      [kind |-> "MEM", form |-> "word", lit |-> <<"m", "e", "m">>],
      [kind |-> "NOT", form |-> "word", lit |-> <<"n", "o", "t">>],
      [kind |-> "IN", form |-> "word", lit |-> <<"i", "n">>],
      [kind |-> "OUT", form |-> "word", lit |-> <<"o", "u", "t">>],
      [kind |-> "TYPE", form |-> "word", lit |-> <<"u", "8">>],
      [kind |-> "TYPE", form |-> "word", lit |-> <<"u", "1", "6">>],
      [kind |-> "TYPE", form |-> "word", lit |-> <<"c", "h", "a", "r">>],
      [kind |-> "BIN", form |-> "bin", lit |-> <<>>],
      [kind |-> "NUM", form |-> "num", lit |-> <<>>],
      [kind |-> "CHARLIT", form |-> "charlit", lit |-> <<>>],
      [kind |-> "OP", form |-> "lit", lit |-> <<"+", "+">>],
      [kind |-> "OP", form |-> "lit", lit |-> <<"-", "-">>],
      [kind |-> "OP", form |-> "lit", lit |-> <<"+", "=">>],
      [kind |-> "OP", form |-> "lit", lit |-> <<"-", "=">>],
      [kind |-> "OP", form |-> "lit", lit |-> <<"&", "=">>],
      [kind |-> "OP", form |-> "lit", lit |-> <<"|", "=">>],
      [kind |-> "OP", form |-> "lit", lit |-> <<"^", "=">>],
      [kind |-> "OP", form |-> "lit", lit |-> <<"<", "<", "=">>],
      [kind |-> "OP", form |-> "lit", lit |-> <<">", ">", "=">>],
      [kind |-> "OP", form |-> "lit", lit |-> <<"=", "=">>],
      [kind |-> "OP", form |-> "lit", lit |-> <<"!", "=">>],
      [kind |-> "OP", form |-> "lit", lit |-> <<"<", "=">>],
      [kind |-> "OP", form |-> "lit", lit |-> <<">", "=">>],
      [kind |-> "OP", form |-> "lit", lit |-> <<"<", "<">>],
      [kind |-> "OP", form |-> "lit", lit |-> <<">", ">">>],
      [kind |-> "OP", form |-> "lit", lit |-> <<"=">>],
      [kind |-> "OP", form |-> "lit", lit |-> <<"<">>],
      [kind |-> "OP", form |-> "lit", lit |-> <<">">>],
      [kind |-> "LBRACE", form |-> "lit", lit |-> <<"{">>],
      [kind |-> "RBRACE", form |-> "lit", lit |-> <<"}">>],
      [kind |-> "LPAREN", form |-> "lit", lit |-> <<"(">>],
      [kind |-> "RPAREN", form |-> "lit", lit |-> <<")">>],
      [kind |-> "LBRACK", form |-> "lit", lit |-> <<"[">>],
      [kind |-> "RBRACK", form |-> "lit", lit |-> <<"]">>],
      [kind |-> "COMMA", form |-> "lit", lit |-> <<",">>],
      [kind |-> "FUNC", form |-> "word", lit |-> <<"f", "u", "n", "c">>],
      [kind |-> "RETURN", form |-> "word", lit |-> <<"r", "e", "t", "u", "r", "n">>],
      [kind |-> "CALL", form |-> "word", lit |-> <<"c", "a", "l", "l">>],
      [kind |-> "COLON", form |-> "lit", lit |-> <<":">>],
      [kind |-> "HALT", form |-> "word", lit |-> <<"h", "a", "l", "t">>],
      [kind |-> "IDENT", form |-> "ident", lit |-> <<>>]>>

\* The length of the longest run of characters of cls from position i.
Run(src, i, cls) ==
    LET stop == {j \in i .. Len(src) : src[j] \notin cls}
    IN  IF i > Len(src) THEN 0
        ELSE IF stop = {} THEN Len(src) - i + 1
        ELSE (CHOOSE j \in stop : \A x \in stop : j <= x) - i

\* The text lit stands at position i.
LitAt(src, i, t) ==
    /\ i + Len(t) - 1 <= Len(src)
    /\ \A k \in 1 .. Len(t) : src[i + k - 1] = t[k]

\* \b at position i: exactly one of the characters around it is a \w.
WordBoundary(src, i) ==
    (i > 1 /\ src[i - 1] \in WordCh) # (i <= Len(src) /\ src[i] \in WordCh)

\* The number of characters one alternative matches at position i (0: none).
MatchLen(src, i, rule) ==
    LET all == {src[k] : k \in 1 .. Len(src)}
    IN  IF rule.form = "ws" THEN Run(src, i, SpaceCh)
        ELSE IF rule.form = "comment"
        THEN IF LitAt(src, i, <<"/", "/">>) THEN 2 + Run(src, i + 2, all \ {"\n"})
             ELSE IF src[i] \in {";", "#"} THEN 1 + Run(src, i + 1, all \ {"\n"})
             ELSE 0
        ELSE IF rule.form = "lit"
        THEN IF LitAt(src, i, rule.lit) THEN Len(rule.lit) ELSE 0
        ELSE IF rule.form = "bword"
        THEN IF WordBoundary(src, i) /\ LitAt(src, i, rule.lit)
             THEN Len(rule.lit) ELSE 0
        ELSE IF rule.form = "word"
        THEN IF /\ WordBoundary(src, i) /\ LitAt(src, i, rule.lit)
                /\ WordBoundary(src, i + Len(rule.lit))
             THEN Len(rule.lit) ELSE 0
        ELSE IF rule.form = "bin"
        THEN IF LitAt(src, i, <<"0", "b">>) /\ Run(src, i + 2, {"0", "1"}) > 0
             THEN 2 + Run(src, i + 2, {"0", "1"}) ELSE 0
        ELSE IF rule.form = "num" THEN Run(src, i, {DigitCh[k] : k \in 1 .. 10})
        ELSE IF rule.form = "charlit"
        THEN IF /\ i + 2 <= Len(src) /\ src[i] = "'" /\ src[i + 1] # "'"
                /\ src[i + 2] = "'"
             THEN 3 ELSE 0
        ELSE IF src[i] \in AlphaCh \cup {"_"} THEN 1 + Run(src, i + 1, WordCh)
        ELSE 0

\* TOKEN_RE.match(src, i): the first alternative that matches, as (kind,
\* length); length 0 when none does.
MatchAt(src, i) ==
    LET hits == {k \in 1 .. Len(TOKEN_RE) : MatchLen(src, i, TOKEN_RE[k]) > 0}
        first == CHOOSE k \in hits : \A x \in hits : k <= x
    IN  IF hits = {} THEN [kind |-> "", len |-> 0]
        ELSE [kind |-> TOKEN_RE[first].kind, len |-> MatchLen(src, i, TOKEN_RE[first])]

\* Token(kind, text): the text stays a sequence of characters.
Token(kind, text) == [kind |-> kind, text |-> text]

\* tokenize visits the positions 1, m.end() of the match at 1, and so on; a
\* position where nothing matches stops it with the SyntaxError. m.end() as
\* a function of the position (a position that stops the loop maps to itself):
MatchEnd(src) ==
    [i \in 1 .. (Len(src) + 1) |->
        IF i > Len(src) THEN i ELSE i + MatchAt(src, i).len]

\* The positions visited: ends is MatchEnd applied 2^k times and seen the
\* first 2^k positions, doubled until no position is new.
RECURSIVE Visited(_, _)
Visited(ends, seen) ==
    LET more == seen \cup {ends[i] : i \in seen}
    IN  IF more = seen THEN seen
        ELSE Visited([i \in DOMAIN ends |-> ends[ends[i]]], more)

\* tokenize: the tokens in the order of their positions, WS and COMMENT
\* skipped, or the SyntaxError
tokenize(src) ==
    LET ends == MatchEnd(src)
        at == Visited(ends, {1}) \ {Len(src) + 1}
        kept == {i \in at : MatchAt(src, i).kind \notin {"WS", "COMMENT"}}
        nth(k) == CHOOSE i \in kept : Cardinality({j \in kept : j < i}) = k - 1
    IN  IF \E i \in at : ends[i] = i THEN Err("SyntaxError")
        ELSE Ok([k \in 1 .. Cardinality(kept) |->
                    Token(MatchAt(src, nth(k)).kind,
                          SubSeq(src, nth(k), ends[nth(k)] - 1))])

\* ------------------------------------------------------------ parser

\* A parse result: the node and the position after it, or the SyntaxError.
POk(v, i) == [ok |-> TRUE, v |-> v, i |-> i, err |-> ""]
PErr == [ok |-> FALSE, v |-> 0, i |-> 0, err |-> "SyntaxError"]

\* What follows a result that raised nothing.
Then(r, F(_)) == IF r.ok THEN F(r) ELSE r

\* peek().kind ("EOF" for None), and expect() of several kinds in a row.
Kind(toks, i) == IF i <= Len(toks) THEN toks[i].kind ELSE "EOF"
Kinds(toks, i, ks) == \A k \in 1 .. Len(ks) : Kind(toks, i + k - 1) = ks[k]

\* The str of a token text, str.upper() of a character, int(text, base).
RECURSIVE Str(_)
Str(cs) == IF cs = <<>> THEN "" ELSE Head(cs) \o Str(Tail(cs))

UpperOf(c) ==
    IF \E k \in 1 .. 26 : LowerCh[k] = c
    THEN UpperCh[CHOOSE k \in 1 .. 26 : LowerCh[k] = c] ELSE c

RECURSIVE IntOf(_, _)
IntOf(cs, base) ==
    IF cs = <<>> THEN 0
    ELSE IntOf(SubSeq(cs, 1, Len(cs) - 1), base) * base
         + (CHOOSE d \in 0 .. 9 : DigitCh[d + 1] = cs[Len(cs)])

\* reg[NAME] as operand or target: one letter a register, two a pair.
RegNode(toks, i) ==
    LET name == [k \in 1 .. Len(toks[i + 2].text) |-> UpperOf(toks[i + 2].text[k])]
    IN  IF ~Kinds(toks, i, <<"REG", "LBRACK", "IDENT", "RBRACK">>) THEN PErr
        ELSE IF Len(name) = 1 THEN POk(Operand("reg", name[1]), i + 4)
        ELSE IF Len(name) = 2 THEN POk(Operand("regpair", name), i + 4)
        ELSE PErr

RECURSIVE parse_operand(_, _), ParseArgs(_, _, _)

\* parse_address
parse_address(toks, i) ==
    LET name == [k \in 1 .. Len(toks[i].text) |-> UpperOf(toks[i].text[k])]
    IN  IF Kind(toks, i) \in {"NUM", "BIN"} THEN parse_operand(toks, i)
        ELSE IF Kind(toks, i) = "IDENT"
        THEN IF Len(name) = 2 /\ \A k \in 1 .. 2 :
                                    name[k] \in {RegLetters[j] : j \in 1 .. 16}
             THEN POk(Operand("regpair", name), i + 1)
             ELSE POk(Operand("var", Str(toks[i].text)), i + 1)
        ELSE PErr

\* mem[address] as operand or target
MemNode(toks, i) ==
    IF ~Kinds(toks, i, <<"MEM", "LBRACK">>) THEN PErr
    ELSE Then(parse_address(toks, i + 2), LAMBDA a :
            IF Kind(toks, a.i) = "RBRACK" THEN POk(Operand("mem", a.v), a.i + 1)
            ELSE PErr)

\* parse_operand, call arguments: operands separated by commas up to ")"
ParseArgs(toks, i, args) ==
    Then(parse_operand(toks, i), LAMBDA a :
        IF Kind(toks, a.i) = "COMMA" THEN ParseArgs(toks, a.i + 1, Append(args, a.v))
        ELSE IF Kind(toks, a.i) = "RPAREN" THEN POk(Append(args, a.v), a.i + 1)
        ELSE PErr)

\* parse_operand
parse_operand(toks, i) ==
    LET k == Kind(toks, i)
        call(args) == POk(Operand("call", [name |-> Str(toks[i + 1].text),
                                            args |-> args.v]), args.i)
    IN  IF k = "CALL"
        THEN IF ~Kinds(toks, i, <<"CALL", "IDENT", "LPAREN">>) THEN PErr
             ELSE IF Kind(toks, i + 3) = "RPAREN" THEN call(POk(<<>>, i + 4))
             ELSE Then(ParseArgs(toks, i + 3, <<>>), call)
        ELSE IF k = "IN"
        THEN IF Kind(toks, i + 1) # "LPAREN" THEN PErr
             ELSE Then(parse_operand(toks, i + 2), LAMBDA port :
                    IF Kind(toks, port.i) = "RPAREN"
                    THEN POk(Operand("in", port.v), port.i + 1) ELSE PErr)
        ELSE IF k = "REG" THEN RegNode(toks, i)
        ELSE IF k = "MEM" THEN MemNode(toks, i)
        ELSE IF k = "CHARLIT" THEN POk(Operand("char", toks[i].text[2]), i + 1)
        ELSE IF k = "BIN"
        THEN POk(Operand("num", IntOf(SubSeq(toks[i].text, 3, Len(toks[i].text)), 2)),
                 i + 1)
        ELSE IF k = "NUM" THEN POk(Operand("num", IntOf(toks[i].text, 10)), i + 1)
        ELSE IF k = "IDENT" THEN POk(Operand("var", Str(toks[i].text)), i + 1)
        ELSE PErr

\* parse_target
parse_target(toks, i) ==
    IF Kind(toks, i) = "REG" THEN RegNode(toks, i)
    ELSE IF Kind(toks, i) = "MEM" THEN MemNode(toks, i)
    ELSE IF Kind(toks, i) = "IDENT" THEN POk(Target("var", Str(toks[i].text)), i + 1)
    ELSE PErr

\* parse_condition
parse_condition(toks, i) ==
    Then(parse_operand(toks, i), LAMBDA left :
        IF Kind(toks, left.i) # "OP" THEN PErr
        ELSE IF Str(toks[left.i].text) \notin {"==", "!=", "<", ">", "<=", ">="}
        THEN PErr
        ELSE Then(parse_operand(toks, left.i + 1), LAMBDA right :
                POk([left |-> left.v, op |-> Str(toks[left.i].text),
                     right |-> right.v], right.i)))

\* parse_let
parse_let(toks, i) ==
    IF /\ Kinds(toks, i, <<"LET", "IDENT", "OP", "TYPE">>)
       /\ Str(toks[i + 2].text) = "="
    THEN POk(Stmt("let", [name |-> Str(toks[i + 1].text),
                          vtype |-> Str(toks[i + 3].text)]), i + 4)
    ELSE PErr

\* parse_out_stmt
parse_out_stmt(toks, i) ==
    IF ~Kinds(toks, i, <<"OUT", "LPAREN">>) THEN PErr
    ELSE Then(parse_operand(toks, i + 2), LAMBDA port :
            IF Kind(toks, port.i) # "COMMA" THEN PErr
            ELSE Then(parse_operand(toks, port.i + 1), LAMBDA val :
                    IF Kind(toks, val.i) # "RPAREN" THEN PErr
                    ELSE POk(Stmt("out", [port |-> port.v, val |-> val.v]),
                             val.i + 1)))

\* parse_assignment_like
parse_assignment_like(toks, i) ==
    Then(parse_target(toks, i), LAMBDA target :
        LET op == Str(toks[target.i].text)
            rhs(kind, at) ==
                Then(parse_operand(toks, at), LAMBDA r :
                    POk(Stmt(kind, [target |-> target.v, op |-> op, rhs |-> r.v]),
                        r.i))
        IN  IF Kind(toks, target.i) # "OP" THEN PErr
            ELSE IF op \in {"++", "--"}
            THEN POk(Stmt("postfix", [target |-> target.v, op |-> op]), target.i + 1)
            ELSE IF op = "="
            THEN IF Kind(toks, target.i + 1) = "NOT"
                 THEN rhs("assign_not", target.i + 2)
                 ELSE rhs("assign", target.i + 1)
            ELSE IF op \in {"+=", "-=", "&=", "|=", "^=", "<<=", ">>="}
            THEN rhs("opassign", target.i + 1)
            ELSE PErr)

RECURSIVE parse_stmt(_, _, _), BlockStmts(_, _, _)

\* parse_block after its "{": statements up to the matching "}"
BlockStmts(toks, i, stmts) ==
    IF Kind(toks, i) = "RBRACE" THEN POk(stmts, i + 1)
    ELSE IF Kind(toks, i) = "EOF" THEN PErr
    ELSE Then(parse_stmt(toks, i, FALSE), LAMBDA st :
            BlockStmts(toks, st.i, Append(stmts, st.v)))

\* parse_block
parse_block(toks, i) ==
    IF Kind(toks, i) = "LBRACE" THEN BlockStmts(toks, i + 1, <<>>) ELSE PErr

\* "(" condition ")" block, the common part of parse_if and parse_while
CondBlock(toks, i, F(_, _)) ==
    IF Kind(toks, i) # "LPAREN" THEN PErr
    ELSE Then(parse_condition(toks, i + 1), LAMBDA cond :
            IF Kind(toks, cond.i) # "RPAREN" THEN PErr
            ELSE Then(parse_block(toks, cond.i + 1), LAMBDA body : F(cond.v, body)))

\* parse_if: has_else tells an else block from None.
parse_if(toks, i) ==
    CondBlock(toks, i + 1, LAMBDA cond, then :
        IF Kind(toks, then.i) = "ELSE"
        THEN Then(parse_block(toks, then.i + 1), LAMBDA else :
                POk(Stmt("if", [cond |-> cond, then |-> then.v, else |-> else.v,
                                has_else |-> TRUE]), else.i))
        ELSE POk(Stmt("if", [cond |-> cond, then |-> then.v, else |-> <<>>,
                             has_else |-> FALSE]), then.i))

\* parse_while
parse_while(toks, i) ==
    CondBlock(toks, i + 1, LAMBDA cond, body :
        POk(Stmt("while", [cond |-> cond, body |-> body.v]), body.i))

\* parse_return_stmt
parse_return_stmt(toks, i) ==
    IF Kind(toks, i) # "RETURN" THEN PErr
    ELSE Then(parse_operand(toks, i + 1), LAMBDA expr :
            POk(Stmt("return", expr.v), expr.i))

\* parse_stmt
parse_stmt(toks, i, allow_return) ==
    LET k == Kind(toks, i)
    IN  IF k = "EOF" THEN PErr
        ELSE IF k = "LET" THEN parse_let(toks, i)
        ELSE IF k = "IF" THEN parse_if(toks, i)
        ELSE IF k = "WHILE" THEN parse_while(toks, i)
        ELSE IF k = "OUT" THEN parse_out_stmt(toks, i)
        ELSE IF k = "RETURN"
        THEN IF ~allow_return THEN PErr ELSE parse_return_stmt(toks, i)
        ELSE IF k = "HALT" THEN POk(Stmt("halt", 0), i + 1)
        ELSE parse_assignment_like(toks, i)

\* parse_funcdef, the parameter list after "(": name ":" type, by commas
RECURSIVE ParseParams(_, _, _)
ParseParams(toks, i, params) ==
    LET p == Param(Str(toks[i].text), Str(toks[i + 2].text))
    IN  IF ~Kinds(toks, i, <<"IDENT", "COLON", "TYPE">>) THEN PErr
        ELSE IF Kind(toks, i + 3) = "COMMA"
        THEN ParseParams(toks, i + 4, Append(params, p))
        ELSE IF Kind(toks, i + 3) = "RPAREN" THEN POk(Append(params, p), i + 4)
        ELSE PErr

\* parse_funcdef, the block after "{": statements, then the one return
\* (ret is <<>> before it and <<operand>> after), then "}"
RECURSIVE FuncBlock(_, _, _, _)
FuncBlock(toks, i, body, ret) ==
    IF Kind(toks, i) = "RBRACE"
    THEN IF ret = <<>> THEN PErr ELSE POk([body |-> body, ret |-> ret[1]], i + 1)
    ELSE IF Kind(toks, i) = "EOF" THEN PErr
    ELSE IF Kind(toks, i) = "RETURN"
    THEN IF ret # <<>> THEN PErr
         ELSE Then(parse_return_stmt(toks, i), LAMBDA r :
                FuncBlock(toks, r.i, body, <<r.v.data>>))
    ELSE IF ret # <<>> THEN PErr
    ELSE Then(parse_stmt(toks, i, FALSE), LAMBDA st :
            FuncBlock(toks, st.i, Append(body, st.v), ret))

\* parse_funcdef
parse_funcdef(toks, i) ==
    IF ~Kinds(toks, i, <<"FUNC", "IDENT", "LPAREN">>) THEN PErr
    ELSE Then(IF Kind(toks, i + 3) = "RPAREN" THEN POk(<<>>, i + 4)
              ELSE ParseParams(toks, i + 3, <<>>),
              LAMBDA params :
                IF Kind(toks, params.i) # "LBRACE" THEN PErr
                ELSE Then(FuncBlock(toks, params.i + 1, <<>>, <<>>), LAMBDA b :
                        POk(FuncDef(Str(toks[i + 1].text), params.v, b.v.body,
                                    b.v.ret), b.i)))

\* parse_program from position i on
RECURSIVE parse_program(_, _, _, _)
parse_program(toks, i, funcs, main) ==
    IF Kind(toks, i) = "EOF" THEN POk(Program(funcs, main), i)
    ELSE IF Kind(toks, i) = "FUNC"
    THEN Then(parse_funcdef(toks, i), LAMBDA f :
            parse_program(toks, f.i, Append(funcs, f.v), main))
    ELSE Then(parse_stmt(toks, i, FALSE), LAMBDA st :
            parse_program(toks, st.i, funcs, Append(main, st.v)))

\* compile_highlang_text as far as the tree: tokenize, Parser(...).parse_program()
ParseText(src) ==
    Then(tokenize(src), LAMBDA toks : parse_program(toks.v, 1, <<>>, <<>>))

\* compile_highlang_text from the tree on: Codegen().compile_program, render
CompileAst(parsed) == Then(parsed, LAMBDA prog : compile_highlang(prog.v))

\* compile_highlang_text: the assembly text, or the SyntaxError or
\* ValueError that ends it
compile_highlang_text(src) == CompileAst(ParseText(src))

\* ------------------------------------------------------------ loading

\* CPU8Bit.__init__: self.memory = program + [0] * (65536 - len(program))
Load(program) == [a \in 0 .. (Len(program) - 1) |-> program[a + 1]]

\* ------------------------------------------------------------ programs

\* The byte values the programs' operands are drawn from.
ByteVals == (0 .. MaxByte) \cup {127, 128} \cup ((255 - MaxByte) .. 255)

\* The 16-bit values: every hi:lo of two such bytes.
WordVals == {hi * 256 + lo : hi \in ByteVals, lo \in ByteVals}

\* Stack depths before a body runs: near empty and near full (31 bytes fit).
Depths == (0 .. MaxDepth) \cup ((30 - MaxDepth) .. 31)

\* The register operand with index i, written as its letter.
R(i) == Id(RegLetters[i + 1])

\* Lines that leave Z = z and C = c (both are 0 after construction).
FlagSetup(z, c) ==
    IF z = 0 /\ c = 0 THEN <<>>
    ELSE IF z = 1 /\ c = 0 THEN <<I2("CMP", R(0), R(0))>>
    ELSE IF z = 0 /\ c = 1 THEN <<I2("LDI", R(1), Num(1)), I2("CMP", R(0), R(1))>>
    ELSE <<I2("LDI", R(0), Num(255)), I1("INC", R(0))>>

\* What every program ends with: HALT, a second HALT at label L, a byte at D.
Tail3 ==
    <<I0("HALT"), Line(<<"L">>, "HALT", <<>>), Line(<<"D">>, "$", <<Num(9)>>)>>

\* A program descriptor: the family, a mnemonic and the numeric parameters.
Desc(fam, op, n) == [fam |-> fam, op |-> op, n |-> n]

\* --- family "alu": flags z, c; r1 <- a; r2 <- b; then one ALU instruction.
AluOps2 == {"ADD", "ADC", "SUB", "SBC", "CMP", "AND", "OR", "XOR", "MOV"}
AluOps1 == {"INC", "DEC", "NOT", "SHL", "SHR"}
AluRegs == {<<0, 1>>, <<7, 2>>, <<3, 3>>}

AluDescs ==
    {Desc("alu", op, <<z, c, rr[1], rr[2], a, b>>) :
        op \in AluOps2 \cup AluOps1, z \in {0, 1}, c \in {0, 1},
        rr \in AluRegs, a \in ByteVals, b \in ByteVals}

AluText(d) ==
    FlagSetup(d.n[1], d.n[2])
    \o <<I2("LDI", R(d.n[3]), Num(d.n[5])), I2("LDI", R(d.n[4]), Num(d.n[6]))>>
    \o <<IF d.op \in AluOps1 THEN I1(d.op, R(d.n[3]))
         ELSE I2(d.op, R(d.n[3]), R(d.n[4]))>>
    \o Tail3

\* --- family "w16": X in A:B, Y in C:D, then ADD/ADC or SUB/SBC low to high.
W16Descs ==
    {Desc("w16", op, <<x, y>>) : op \in {"ADD", "SUB"}, x \in WordVals, y \in WordVals}

W16Text(d) ==
    <<I2("LDI16", Id("AB"), Num(d.n[1])), I2("LDI16", Id("CD"), Num(d.n[2])),
      I2(d.op, R(1), R(3)),
      I2(IF d.op = "ADD" THEN "ADC" ELSE "SBC", R(0), R(2))>>
    \o Tail3

\* --- family "frame": flags z, c; A <- a; B <- a + 85; then one body.
FrameBodies ==
    << <<I2("LDI", R(7), Num(77))>>,
       <<I2("LDI", R(8), Num(1))>>,
       <<I2("LDI16", Id("GH"), Num(4660))>>,
       <<I2("LDI16", Id("HI"), Num(4660))>>,
       <<I2("LDI16", Id("IH"), Num(4660))>>,
       <<I2("MOV", R(7), R(0))>>,
       <<I2("MOV", R(0), R(8))>>,
       <<I2("LDM", R(7), Id("D"))>>,
       <<I2("STM", Id("D"), R(0))>>,
       <<I2("STM", Num(65520), R(0))>>,
       <<I3("LDR", R(7), R(0), R(1))>>,
       <<I3("STR", R(0), R(1), R(0))>>,
       <<I3("STR", R(0), R(1), R(9))>>,
       <<I1("JMP", Id("L"))>>,
       <<I1("JZ", Id("L"))>>,
       <<I1("JNZ", Id("L"))>>,
       <<I1("JC", Id("L"))>>,
       <<I1("JNC", Id("L"))>>,
       <<I1("PUSH", R(0))>>,
       <<I1("PUSH", R(8))>>,
       <<I1("POP", R(0))>>,
       <<I1("PUSH", R(0)), I1("POP", R(15))>>,
       <<I2("PUSH16", R(0), R(1))>>,
       <<I1("PUSH16", Id("BA"))>>,
       <<I1("POP16", Id("AB"))>>,
       <<I1("PUSH16", Id("AB")), I1("POP16", Id("OP"))>>,
       <<I1("PUSH16", Id("AB")), I1("POP16", Id("HI"))>>,
       <<I1("CALL", Id("L"))>>,
       <<I0("RET")>>,
       <<I2("IN", R(7), Num(0))>>,
       <<I2("OUT", Num(1), R(0)), I2("IN", R(7), Num(1))>>,
       <<I2("IN", R(7), Num(8))>>,
       <<I2("IN", R(8), Num(0))>>,
       <<I2("OUT", Num(7), R(1))>>,
       <<I2("OUT", Num(9), R(0))>>,
       <<I2("OUT", Num(1), R(8))>>,
       <<I2("ADD", R(0), R(8))>>,
       <<I1("NOT", R(8))>>,
       <<I1("$", Num(0))>>,
       <<I1("$", Num(200))>>,
       <<I0("HALT")>> >>

FrameDescs ==
    {Desc("frame", "", <<z, c, a, i>>) :
        z \in {0, 1}, c \in {0, 1}, a \in ByteVals, i \in 1 .. Len(FrameBodies)}

FrameText(d) ==
    FlagSetup(d.n[1], d.n[2])
    \o <<I2("LDI", R(0), Num(d.n[3])), I2("LDI", R(1), Num(And8(d.n[3] + 85)))>>
    \o FrameBodies[d.n[4]]
    \o Tail3

\* --- family "stack": A <- x; B <- x + 85; k bytes pushed; H <- 3; one body.
StackBodies ==
    << <<I1("PUSH", R(0)), I1("POP", R(0))>>,
       <<I1("PUSH", R(0)), I1("POP", R(1))>>,
       <<I1("PUSH", R(1)), I1("POP", R(7))>>,
       <<I1("PUSH", R(7)), I1("POP", R(0))>>,
       <<I1("PUSH16", Id("AB")), I1("POP16", Id("AB"))>>,
       <<I1("PUSH16", Id("AB")), I1("POP16", Id("CD"))>>,
       <<I1("PUSH16", Id("AB")), I2("POP16", R(1), R(0))>>,
       <<I2("PUSH16", R(1), R(0)), I1("POP16", Id("GH"))>>,
       <<I1("PUSH16", Id("AA")), I1("POP16", Id("HG"))>>,
       <<I1("PUSH16", Id("AB")), I1("POP16", Id("DD"))>>,
       <<I1("CALL", Id("F")), I0("HALT"), Line(<<"F">>, "RET", <<>>)>>,
       <<I2("CMP", R(0), R(0)), I1("CALL", Id("F")), I0("HALT"),
         Line(<<"F">>, "RET", <<>>)>>,
       <<I1("CALL", Id("F")), I0("HALT"),
         Line(<<"F">>, "POP16", <<Id("GH")>>), I1("PUSH16", Id("GH")), I0("RET")>>,
       <<I1("CALL", Id("F")), I0("HALT"),
         Line(<<"F">>, "POP16", <<R(2), R(3)>>), I2("PUSH16", R(2), R(3)), I0("RET")>>,
       <<I1("CALL", Id("F")), I0("HALT"),
         Line(<<"F">>, "POP16", <<Id("CD")>>), I1("PUSH16", Id("DC")), I0("RET")>>,
       <<I1("POP", R(2))>>,
       <<I1("POP16", Id("CD"))>>,
       <<I0("RET")>>,
       <<I1("PUSH", R(0)), I1("PUSH", R(1))>>,
       <<I1("PUSH16", Id("AB")), I1("PUSH16", Id("AB"))>>,
       <<Line(<<"F">>, "CALL", <<Id("F")>>)>> >>

StackDescs ==
    {Desc("stack", "", <<x, k, i>>) :
        x \in ByteVals, k \in Depths, i \in 1 .. Len(StackBodies)}

\* The k pushes are a counted loop on H, so the text stays short.
Fill(k) ==
    IF k = 0 THEN <<>>
    ELSE <<I2("LDI", R(7), Num(k)), Line(<<"T">>, "PUSH", <<R(1)>>),
           I1("DEC", R(7)), I1("JNZ", Id("T"))>>

StackText(d) ==
    <<I2("LDI", R(0), Num(d.n[1])), I2("LDI", R(1), Num(And8(d.n[1] + 85)))>>
    \o Fill(d.n[2])
    \o <<I2("LDI", R(7), Num(3))>>
    \o StackBodies[d.n[3]]
    \o Tail3

\* --- family "hl": compiled programs whose main is r = call f(...).
\* n[1] picks the function, n[2] and n[3] are the argument values.
HlFunc(v) ==
    IF v = 1 THEN FuncDef("f", <<Param("a", "u8")>>, <<>>, Operand("var", "a"))
    ELSE IF v = 2
    THEN FuncDef("f", <<Param("a", "u8"), Param("b", "u8")>>, <<>>,
                 Operand("var", "b"))
    ELSE IF v = 3
    THEN FuncDef("f", <<Param("a", "u16"), Param("b", "u8")>>, <<>>,
                 Operand("var", "a"))
    ELSE FuncDef("f", <<>>, <<>>, Operand("num", 7))

HlArgs(d) ==
    IF d.n[1] = 1 THEN <<Operand("num", d.n[2])>>
    ELSE IF d.n[1] = 2 THEN <<Operand("num", d.n[2]), Operand("num", d.n[3])>>
    ELSE IF d.n[1] = 3
    THEN <<Operand("num", d.n[2] * 256 + d.n[3]), Operand("num", d.n[3])>>
    ELSE <<>>

HlProgram(d) ==
    Program(<<HlFunc(d.n[1])>>,
            <<Stmt("let", [name |-> "r", vtype |-> IF d.n[1] = 3 THEN "u16" ELSE "u8"]),
              Stmt("assign", [target |-> Target("var", "r"),
                              rhs |-> Operand("call", [name |-> "f", args |-> HlArgs(d)])])>>)

HlDescs ==
    {Desc("hl", "", <<v, x, y>>) : v \in 1 .. 4, x \in ByteVals, y \in ByteVals}

\* --- family "src": HighLang source texts, character by character. S4 and
\* S5 are the two scenario programs as printed; S4lines and S5lines have one
\* statement per line; S4incr returns n after n++.
SrcTexts ==
    "S4" :> <<
        "f", "u", "n", "c", " ", "i", "n", "c", "(", "n", ":", "u", "8", ")", "{", " ",
        "r", "e", "t", "u", "r", "n", " ", "n", "+", "1", " ", "}", "\n", "l", "e", "t",
        ":", " ", "x", "=", "u", "8", ";", " ", "x", " ", "=", " ", "c", "a", "l", "l",
        " ", "i", "n", "c", "(", "4", "1", ")", ";", " ", "h", "a", "l", "t">>
    @@ "S4lines" :> <<
        "f", "u", "n", "c", " ", "i", "n", "c", "(", "n", ":", "u", "8", ")", "{", " ",
        "r", "e", "t", "u", "r", "n", " ", "n", "+", "1", " ", "}", "\n", "l", "e", "t",
        ":", " ", "x", "=", "u", "8", "\n", "x", " ", "=", " ", "c", "a", "l", "l", " ",
        "i", "n", "c", "(", "4", "1", ")", "\n", "h", "a", "l", "t">>
    @@ "S4incr" :> <<
        "f", "u", "n", "c", " ", "i", "n", "c", "(", "n", ":", "u", "8", ")", "{", " ",
        "n", "+", "+", "\n", "r", "e", "t", "u", "r", "n", " ", "n", " ", "}", "\n", "l",
        "e", "t", ":", " ", "x", "=", "u", "8", "\n", "x", " ", "=", " ", "c", "a", "l",
        "l", " ", "i", "n", "c", "(", "4", "1", ")", "\n", "h", "a", "l", "t">>
    @@ "S5" :> <<
        "l", "e", "t", ":", " ", "a", "=", "u", "1", "6", ";", " ", "l", "e", "t", ":",
        " ", "b", "=", "u", "1", "6", ";", " ", "a", "=", "3", "0", "0", ";", " ", "b",
        "=", "2", "5", "6", ";", " ", "i", "f", " ", "(", "a", ">", "b", ")", " ", "{",
        " ", "o", "u", "t", "(", "1", ",", "1", ")", " ", "}", " ", "e", "l", "s", "e",
        " ", "{", " ", "o", "u", "t", "(", "1", ",", "0", ")", " ", "}">>
    @@ "S5lines" :> <<
        "l", "e", "t", ":", " ", "a", "=", "u", "1", "6", "\n", "l", "e", "t", ":", " ",
        "b", "=", "u", "1", "6", "\n", "a", "=", "3", "0", "0", "\n", "b", "=", "2", "5",
        "6", "\n", "i", "f", " ", "(", "a", ">", "b", ")", " ", "{", " ", "o", "u", "t",
        "(", "1", ",", "1", ")", " ", "}", " ", "e", "l", "s", "e", " ", "{", " ", "o",
        "u", "t", "(", "1", ",", "0", ")", " ", "}">>

SrcDescs == {Desc("src", name, <<>>) : name \in DOMAIN SrcTexts}

\* The assembly text of a descriptor of a family written in assembly.
\* --- family "len": one statement of mnemonic op, then end: HALT. n[1] is
\* the operand list: 1 the usual one, 2 the usual one and one more token,
\* 3 the usual one without its last token, 4 numbers in place of the
\* operands, 5 another list pass 2 accepts (R names, numbers for labels and
\* labels for numbers, two register tokens for a pair).
Jumps == {"JMP", "JZ", "JNZ", "JC", "JNC", "CALL"}

LenArgs(ins) ==
    IF ins \in {"HALT", "RET"} THEN <<>>
    ELSE IF ins = "LDI" THEN <<Id("A"), Num(5)>>
    ELSE IF ins = "LDI16" THEN <<Id("AB"), Num(300)>>
    ELSE IF ins = "LDM" THEN <<Id("A"), Id("end")>>
    ELSE IF ins = "STM" THEN <<Num(4096), Id("A")>>
    ELSE IF ins \in {"LDR", "STR"} THEN <<Id("A"), Id("B"), Id("C")>>
    ELSE IF ins \in AluOps1 \cup {"PUSH", "POP"} THEN <<Id("A")>>
    ELSE IF ins \in Jumps THEN <<Id("end")>>
    ELSE IF ins = "IN" THEN <<Id("A"), Num(1)>>
    ELSE IF ins = "OUT" THEN <<Num(1), Id("A")>>
    ELSE IF ins \in {"PUSH16", "POP16"} THEN <<Id("AB")>>
    ELSE <<Id("A"), Id("B")>>

LenArgsOther(ins) ==
    IF ins \in {"HALT", "RET"} THEN <<Id("end"), Num(0)>>
    ELSE IF ins = "LDI" THEN <<Id("R7"), Id("end")>>
    ELSE IF ins = "LDI16" THEN <<Id("R0R1"), Id("end")>>
    ELSE IF ins = "LDM" THEN <<Id("H"), Num(0)>>
    ELSE IF ins = "STM" THEN <<Num(4097), Id("R7")>>
    ELSE IF ins \in {"LDR", "STR"} THEN <<Id("H"), Id("G"), Id("R5")>>
    ELSE IF ins \in AluOps1 \cup {"PUSH", "POP"} THEN <<Id("R7")>>
    ELSE IF ins \in Jumps THEN <<Num(3)>>
    ELSE IF ins = "IN" THEN <<Id("H"), Num(0)>>
    ELSE IF ins = "OUT" THEN <<Num(7), Id("R7")>>
    ELSE IF ins \in {"PUSH16", "POP16"} THEN <<Id("A"), Id("B")>>
    ELSE <<Id("H"), Id("R2")>>

LenDescs ==
    {Desc("len", ins, <<v>>) : ins \in DOMAIN OP, v \in 1 .. 5}
    \ {Desc("len", ins, <<v>>) : ins \in {"HALT", "RET"}, v \in {3, 4}}

LenText(d) ==
    LET a == LenArgs(d.op)
        args == IF d.n[1] = 1 THEN a
                ELSE IF d.n[1] = 2 THEN Append(a, Num(7))
                ELSE IF d.n[1] = 3 THEN SubSeq(a, 1, Len(a) - 1)
                ELSE IF d.n[1] = 4 THEN [i \in 1 .. Len(a) |-> Num(i)]
                ELSE LenArgsOther(d.op)
    IN  <<Ins(d.op, args), Line(<<"end">>, "HALT", <<>>)>>

\* --- family "data": JMP start, "$" directives, start: HALT, HALT. op names
\* the directive: "nums" numbers in and out of 0..0xFF, "self" the
\* directive's own label, "fwd" the label start that follows it, "far" a
\* label behind FarLines lines of FarTokens two-byte numbers (an address
\* above 0xFF).
FarLines == 17
FarTokens == 8

DataDescs == {Desc("data", op, <<0>>) : op \in {"nums", "self", "fwd", "far"}}

DataText(d) ==
    LET pad == Ins("$", [i \in 1 .. FarTokens |-> Num(256)])
        dir == IF d.op = "nums"
               THEN <<Line(<<"d">>, "$", <<Num(0), Num(255), Num(256), Num(65535),
                                           Num(-1), Num(70000)>>)>>
               ELSE IF d.op = "self" THEN <<Line(<<"d">>, "$", <<Id("d")>>)>>
               ELSE IF d.op = "fwd" THEN <<Line(<<"d">>, "$", <<Num(1), Id("start")>>)>>
               ELSE [i \in 1 .. FarLines |-> pad]
                    \o <<Line(<<"far">>, "$", <<Id("far"), Id("start")>>)>>
    IN  <<I1("JMP", Id("start"))>> \o dir
        \o <<Line(<<"start">>, "HALT", <<>>), I0("HALT")>>

\* --- family "pair": one LDI16 (of 300), PUSH16 or POP16 on the registers
\* n[2] (HIGH) and n[3] (LOW), then HALT. n[1] = 1 writes the pair as one
\* two-letter token, n[1] = 2 as two register tokens.
PairOps == {"LDI16", "PUSH16", "POP16"}
PairRegs == {0, 1, 7}

PairDescs ==
    {Desc("pair", ins, <<form, x, y>>) :
        ins \in PairOps, form \in {1, 2}, x \in PairRegs, y \in PairRegs}

PairText(d) ==
    LET X == RegLetters[d.n[2] + 1]
        Y == RegLetters[d.n[3] + 1]
        regs == IF d.n[1] = 1 THEN <<Id(X \o Y)>> ELSE <<Id(X), Id(Y)>>
        imm == IF d.op = "LDI16" THEN <<Num(300)>> ELSE <<>>
    IN  <<Ins(d.op, regs \o imm), I0("HALT")>>

\* --- family "range": one statement with an operand that does not fit its
\* field, then HALT. n[1]: 1 an 8-bit immediate or port above 255, 2 a
\* negative one, 3 a 16-bit address or immediate above 65535, 4 a negative
\* one, 5 a register letter beyond H, 6 an R name beyond R7, 7 a pair
\* token with such a letter.
RangeOps ==
    [v \in 1 .. 7 |->
        IF v \in {1, 2} THEN {"LDI", "IN", "OUT"}
        ELSE IF v \in {3, 4} THEN {"JMP", "CALL", "LDM", "STM", "LDI16"}
        ELSE IF v \in {5, 6} THEN {"MOV", "INC", "PUSH", "LDI", "ADD"}
        ELSE PairOps]

RangeDescs ==
    UNION {{Desc("range", ins, <<v>>) : ins \in RangeOps[v]} : v \in 1 .. 7}

RangeText(d) ==
    LET v == d.n[1]
        r == IF v = 5 THEN Id("I") ELSE IF v = 6 THEN Id("R8") ELSE Id("A")
        x == IF v = 1 THEN Num(256) ELSE IF v = 2 THEN Num(-1)
             ELSE IF v = 3 THEN Num(65536) ELSE IF v = 4 THEN Num(-1) ELSE Num(1)
        pair == IF v = 7 THEN Id("OP") ELSE Id("AB")
        args == IF d.op \in {"LDI", "IN", "LDM"} THEN <<r, x>>
                ELSE IF d.op \in {"OUT", "STM"} THEN <<x, r>>
                ELSE IF d.op \in {"JMP", "CALL"} THEN <<x>>
                ELSE IF d.op = "LDI16" THEN <<pair, x>>
                ELSE IF d.op \in {"PUSH16", "POP16"} THEN <<pair>>
                ELSE IF d.op \in {"INC", "PUSH"} THEN <<r>>
                ELSE <<r, Id("A")>>
    IN  <<Ins(d.op, args), I0("HALT")>>

\* --- family "lbl": label definitions and references. "ok": a forward and
\* a backward reference; "two": two labels on one line; "dup": a name
\* defined on two lines; "dupline": twice on one line; "undef", "undefimm",
\* "undefport", "undefdata": a word that is no label as a jump target, an
\* immediate, a port, a "$" value; "case": a reference in another case.
LblOps ==
    {"ok", "two", "dup", "dupline", "undef", "undefimm", "undefport",
     "undefdata", "case"}
LblDescs == {Desc("lbl", op, <<0>>) : op \in LblOps}

LblText(d) ==
    IF d.op = "ok"
    THEN <<I1("JMP", Id("fwd")), Line(<<"back">>, "HALT", <<>>),
           Line(<<"fwd">>, "JMP", <<Id("back")>>)>>
    ELSE IF d.op = "two"
    THEN <<I2("LDI", Id("A"), Id("b")), Line(<<"a", "b">>, "HALT", <<>>),
           Line(<<>>, "$", <<Id("a"), Num(1)>>)>>
    ELSE IF d.op = "dup"
    THEN <<Line(<<"a">>, "LDI", <<Id("A"), Num(1)>>), Line(<<"a">>, "HALT", <<>>)>>
    ELSE IF d.op = "dupline"
    THEN <<Line(<<"a", "a">>, "HALT", <<>>)>>
    ELSE IF d.op = "undef"
    THEN <<I1("JMP", Id("nowhere")), I0("HALT")>>
    ELSE IF d.op = "undefimm"
    THEN <<I2("LDI", Id("A"), Id("nowhere")), I0("HALT")>>
    ELSE IF d.op = "undefport"
    THEN <<Lbl("p"), I2("OUT", Id("q"), Id("A")), I0("HALT")>>
    ELSE IF d.op = "undefdata"
    THEN <<I0("HALT"), Line(<<"d">>, "$", <<Num(1), Id("nowhere")>>)>>
    ELSE <<Line(<<"L">>, "JMP", <<Id("l")>>), I0("HALT")>>

\* --- family "s2": the loop LDI A, 3 / L: DEC A / JNZ L / HALT.
S2Descs == {Desc("s2", "", <<3>>)}
S2Text(d) ==
    <<I2("LDI", Id("A"), Num(d.n[1])), Line(<<"L">>, "DEC", <<Id("A")>>),
      I1("JNZ", Id("L")), I0("HALT")>>

\* --- family "con": programs on the keyboard port and the text buffer, run
\* with the console thread. "in": two reads of port 0; "out": a write of 7
\* to port 0, then a read; "text": 'A' to the first and 'B' to the last byte
\* of the text buffer.
ConDescs == {Desc("con", op, <<0>>) : op \in {"in", "out", "text"}}

ConText(d) ==
    IF d.op = "in"
    THEN <<I2("IN", Id("A"), Num(0)), I2("IN", Id("B"), Num(0)), I0("HALT")>>
    ELSE IF d.op = "out"
    THEN <<I2("LDI", Id("A"), Num(7)), I2("OUT", Num(0), Id("A")),
           I2("IN", Id("B"), Num(0)), I0("HALT")>>
    ELSE <<I2("LDI", Id("A"), Num(11)), I2("STM", Num(MEM_SIZE - TEXT_SIZE), Id("A")),
           I2("LDI", Id("A"), Num(12)), I2("STM", Num(MEM_SIZE - 1), Id("A")),
           I0("HALT")>>

Text(d) ==
    IF d.fam = "alu" THEN AluText(d)
    ELSE IF d.fam = "w16" THEN W16Text(d)
    ELSE IF d.fam = "frame" THEN FrameText(d)
    ELSE IF d.fam = "len" THEN LenText(d)
    ELSE IF d.fam = "data" THEN DataText(d)
    ELSE IF d.fam = "pair" THEN PairText(d)
    ELSE IF d.fam = "range" THEN RangeText(d)
    ELSE IF d.fam = "con" THEN ConText(d)
    ELSE IF d.fam = "lbl" THEN LblText(d)
    ELSE IF d.fam = "s2" THEN S2Text(d)
    ELSE StackText(d)

\* The families written in assembly (the others are compiled by minic).
AsmFams ==
    {"alu", "w16", "frame", "stack", "len", "data", "pair", "range", "con", "lbl",
     "s2"}
AsmDescs ==
    AluDescs \cup W16Descs \cup FrameDescs \cup StackDescs \cup LenDescs
    \cup DataDescs \cup PairDescs \cup RangeDescs \cup ConDescs \cup LblDescs
    \cup S2Descs

\* --- family "ret": one call t = call f() where op says: in main, in a
\* function g defined after f ("later"), in g defined before f ("earlier"),
\* or in f itself ("self"). n[1] is the width of the target t, n[2] the
\* width of f's return expression (7 or 300).
RetProgram(d) ==
    LET ret == Operand("num", IF d.n[2] = 16 THEN 300 ELSE 7)
        site == <<Stmt("let", [name |-> "t",
                               vtype |-> IF d.n[1] = 16 THEN "u16" ELSE "u8"]),
                  Stmt("assign", [target |-> Target("var", "t"),
                                  rhs |-> Operand("call", [name |-> "f",
                                                           args |-> <<>>])])>>
        f == FuncDef("f", <<>>, IF d.op = "self" THEN site ELSE <<>>, ret)
        g == FuncDef("g", <<>>, site, Operand("num", 1))
    IN  IF d.op = "main" THEN Program(<<f>>, site)
        ELSE IF d.op = "later" THEN Program(<<f, g>>, <<>>)
        ELSE IF d.op = "earlier" THEN Program(<<g, f>>, <<>>)
        ELSE Program(<<f>>, <<>>)

RetDescs ==
    {Desc("ret", place, <<tw, fw>>) :
        place \in {"main", "later", "earlier", "self"}, tw \in {8, 16}, fw \in {8, 16}}

\* The unsigned comparison l op r.
Holds(op, l, r) ==
    IF op = "==" THEN l = r
    ELSE IF op = "!=" THEN l # r
    ELSE IF op = "<" THEN l < r
    ELSE IF op = "<=" THEN l <= r
    ELSE IF op = ">" THEN l > r
    ELSE l >= r

RelOps == {"==", "!=", "<", "<=", ">", ">="}

\* setup, then if (left op right) { out(1, 1) } else { out(1, 2) }
IfProgram(setup, left, op, right) ==
    LET say(v) == <<Stmt("out", [port |-> Operand("num", 1),
                                 val |-> Operand("num", v)])>>
    IN  Program(<<>>,
                setup \o <<Stmt("if", [cond |-> [left |-> left, op |-> op,
                                                 right |-> right],
                                       then |-> say(1), else |-> say(2),
                                       has_else |-> TRUE])>>)

\* x = v as the parser gives it, for a variable or a register (pair) x
SetVar(name, v) ==
    Stmt("assign", [target |-> Target("var", name), rhs |-> Operand("num", v)])
SetReg(kind, r, v) ==
    Stmt("assign", [target |-> Target(kind, r), rhs |-> Operand("num", v)])
Let(name, vtype) == Stmt("let", [name |-> name, vtype |-> vtype])

\* --- family "cmp16": a 16-bit comparison of L = n[3] and R = n[4]. n[1] is
\* the form of the left operand (1 the u16 variable a, 2 the constant,
\* 3 reg[EF], 4 reg[CA]), n[2] that of the right operand (1 the variable b,
\* 2 the constant, 3 reg[GH], 4 reg[AC], 5 reg[BD]). The variables are set
\* first, the register pairs after them.
LeftPair16(f) == IF f = 3 THEN <<"E", "F">> ELSE <<"C", "A">>
RightPair16(f) == IF f = 3 THEN <<"G", "H">> ELSE IF f = 4 THEN <<"A", "C">> ELSE <<"B", "D">>

Cmp16Program(d) ==
    LET lf == d.n[1]
        rf == d.n[2]
        left == IF lf = 1 THEN Operand("var", "a")
                ELSE IF lf = 2 THEN Operand("num", d.n[3])
                ELSE Operand("regpair", LeftPair16(lf))
        right == IF rf = 1 THEN Operand("var", "b")
                 ELSE IF rf = 2 THEN Operand("num", d.n[4])
                 ELSE Operand("regpair", RightPair16(rf))
        setup == (IF lf = 1 THEN <<Let("a", "u16"), SetVar("a", d.n[3])>> ELSE <<>>)
                 \o (IF rf = 1 THEN <<Let("b", "u16"), SetVar("b", d.n[4])>> ELSE <<>>)
                 \o (IF lf > 2 THEN <<SetReg("regpair", LeftPair16(lf), d.n[3])>> ELSE <<>>)
                 \o (IF rf > 2 THEN <<SetReg("regpair", RightPair16(rf), d.n[4])>> ELSE <<>>)
    IN  IfProgram(setup, left, d.op, right)

\* equal; high bytes equal, low bytes less and greater; high byte less with
\* low byte greater, and the reverse
Pairs16 == {<<256, 256>>, <<256, 300>>, <<300, 256>>, <<511, 512>>, <<512, 511>>}

Cmp16Descs ==
    {Desc("cmp16", op, <<lf, rf, p[1], p[2]>>) :
        op \in RelOps, lf \in 1 .. 4, rf \in 1 .. 5, p \in Pairs16}
    \ {Desc("cmp16", op, <<4, 4, p[1], p[2]>>) : op \in RelOps, p \in Pairs16}

\* --- family "cmp8": an 8-bit comparison of l = n[3] and r = n[4]. n[1] and
\* n[2] are the forms of the left and the right operand: 1 the constant,
\* 2 the char literal of that code, 3 a u8 variable (a, b), 4 a register
\* the lowering does not use (E, F), 5 reg[A], 6 reg[B], 7 mem[4096] and
\* mem[4097], 8 in(2) and in(3). The setup writes variables, memory and
\* ports first and registers last, A after B.
Operand8(f, v, right) ==
    IF f = 1 THEN Operand("num", v)
    ELSE IF f = 2 THEN Operand("char", CHAR_MAP[v])
    ELSE IF f = 3 THEN Operand("var", IF right THEN "b" ELSE "a")
    ELSE IF f = 4 THEN Operand("reg", IF right THEN "F" ELSE "E")
    ELSE IF f = 5 THEN Operand("reg", "A")
    ELSE IF f = 6 THEN Operand("reg", "B")
    ELSE IF f = 7 THEN Operand("mem", Operand("num", IF right THEN 4097 ELSE 4096))
    ELSE Operand("in", Operand("num", IF right THEN 3 ELSE 2))

Setup8(f, v, right, regs) ==
    LET o == Operand8(f, v, right)
    IN  IF f = 3 /\ regs = 0 THEN <<Let(o.value, "u8"), SetVar(o.value, v)>>
        ELSE IF f = 7 /\ regs = 0
        THEN <<Stmt("assign", [target |-> Target("mem", o.value),
                               rhs |-> Operand("num", v)])>>
        ELSE IF f = 8 /\ regs = 0
        THEN <<Stmt("out", [port |-> o.value, val |-> Operand("num", v)])>>
        ELSE IF f \in {4, 5, 6} /\ regs = f THEN <<SetReg("reg", o.value, v)>>
        ELSE <<>>

Cmp8Program(d) ==
    LET both(regs) == Setup8(d.n[1], d.n[3], FALSE, regs)
                      \o Setup8(d.n[2], d.n[4], TRUE, regs)
    IN  IfProgram(both(0) \o both(4) \o both(6) \o both(5),
                  Operand8(d.n[1], d.n[3], FALSE), d.op, Operand8(d.n[2], d.n[4], TRUE))

\* the codes of 'A' and 'B': equal, less, greater
Pairs8 == {<<11, 11>>, <<11, 12>>, <<12, 11>>}

Cmp8Descs ==
    {Desc("cmp8", op, <<lf, rf, p[1], p[2]>>) :
        op \in RelOps, lf \in 1 .. 8, rf \in 1 .. 8, p \in Pairs8}
    \ {Desc("cmp8", op, <<f, f, p[1], p[2]>>) :
        op \in RelOps, f \in {5, 6}, p \in Pairs8}

\* --- family "asg": one assignment target = rhs after the declarations
\* let: x = u8, let: y = u8, let: w = u16, let: v = u16. n[1] is the target:
\* reg[A], reg[AB], x, w, mem[100]; n[2] the right-hand side: 5, 300,
\* reg[B], reg[CD], y, v.
AsgTargets ==
    <<Target("reg", "A"), Target("regpair", <<"A", "B">>), Target("var", "x"),
      Target("var", "w"), Target("mem", Operand("num", 100))>>
AsgRhs ==
    <<Operand("num", 5), Operand("num", 300), Operand("reg", "B"),
      Operand("regpair", <<"C", "D">>), Operand("var", "y"), Operand("var", "v")>>
\* The widths the forms have: a register, a u8 variable, mem[...] and a
\* literal up to 0xFF are 8 bits wide, the others 16.
AsgTargetWidth == <<8, 16, 8, 16, 8>>
AsgRhsWidth == <<8, 16, 8, 16, 8, 16>>

AsgProgram(d) ==
    LET decl(n, t) == Stmt("let", [name |-> n, vtype |-> t])
    IN  Program(<<>>,
                <<decl("x", "u8"), decl("y", "u8"), decl("w", "u16"), decl("v", "u16"),
                  Stmt("assign", [target |-> AsgTargets[d.n[1]],
                                  rhs |-> AsgRhs[d.n[2]]])>>)

AsgDescs ==
    {Desc("asg", "", <<t, r>>) : t \in DOMAIN AsgTargets, r \in DOMAIN AsgRhs}

\* --- family "chr": the program let: x = u8, x = 'g' for the glyph g of the
\* code n[1]; "lines" has the two statements on two lines, "one" on one
\* line with a semicolon between them.
ChrText(d) ==
    LET decl == <<"l", "e", "t", ":", " ", "x", " ", "=", " ", "u", "8">>
        quoted == IF CHAR_MAP[d.n[1]] = "" THEN <<"'", "'">>
                  ELSE <<"'", CHAR_MAP[d.n[1]], "'">>
        asg == <<"x", " ", "=", " ">> \o quoted
    IN  IF d.op = "lines" THEN decl \o <<"\n">> \o asg \o <<"\n">>
        ELSE decl \o <<";", " ">> \o asg

ChrDescs ==
    {Desc("chr", form, <<c>>) : form \in {"lines", "one"}, c \in DOMAIN CHAR_MAP}

\* --- family "flow": control flow around a u8 variable x, then out(2, 9).
\* "if": x = n, if (x < 2) { out(1, 1) } else { out(3, 2) }; "ifonly": the
\* same without else; "while": x = 0, while (x < n) { x++, out(1, 1) };
\* "ifreg": reg[A] = 10 + n, if (11 < reg[A]) { out(1, 1) } else { out(3, 2) }.
FlowLimit == 2
FlowOps == {"if", "ifonly", "while", "ifreg"}
FlowDescs == {Desc("flow", op, <<n>>) : op \in FlowOps, n \in 0 .. 3}

FlowProgram(d) ==
    LET num(v) == Operand("num", v)
        x == Operand("var", "x")
        say(p, v) == Stmt("out", [port |-> num(p), val |-> num(v)])
        cond(l, op, r) == [left |-> l, op |-> op, right |-> r]
        set(t, v) == Stmt("assign", [target |-> t, rhs |-> num(v)])
        decl == Stmt("let", [name |-> "x", vtype |-> "u8"])
        if(c, else) == Stmt("if", [cond |-> c, then |-> <<say(1, 1)>>,
                                   else |-> IF else THEN <<say(3, 2)>> ELSE <<>>,
                                   has_else |-> else])
        loop == Stmt("while", [cond |-> cond(x, "<", num(d.n[1])),
                               body |-> <<Stmt("postfix", [target |-> Target("var", "x"),
                                                           op |-> "++"]),
                                          say(1, 1)>>])
    IN  Program(<<>>,
            IF d.op = "if"
            THEN <<decl, set(Target("var", "x"), d.n[1]),
                   if(cond(x, "<", num(FlowLimit)), TRUE), say(2, 9)>>
            ELSE IF d.op = "ifonly"
            THEN <<decl, set(Target("var", "x"), d.n[1]),
                   if(cond(x, "<", num(FlowLimit)), FALSE), say(2, 9)>>
            ELSE IF d.op = "while"
            THEN <<decl, set(Target("var", "x"), 0), loop, say(2, 9)>>
            ELSE <<set(Target("reg", "A"), 10 + d.n[1]),
                   if(cond(num(11), "<", Operand("reg", "A")), TRUE), say(2, 9)>>)

\* --- family "col": declarations whose storage labels may meet. "ok": f
\* and g with a parameter a and a local t each, globals a (u8) and t (u16);
\* "lohi": globals x (u16) and x_lo (u8); "start": a global __start;
\* "gen": a global endif_1 before an if; "func": a global f beside func f.
ColOps == {"ok", "lohi", "start", "gen", "func"}
ColDescs == {Desc("col", op, <<0>>) : op \in ColOps}

ColProgram(d) ==
    LET let(n, t) == Stmt("let", [name |-> n, vtype |-> t])
        set(n, v) == Stmt("assign", [target |-> Target("var", n),
                                     rhs |-> Operand("num", v)])
        fn(n) == FuncDef(n, <<[name |-> "a", ptype |-> "u8"]>>,
                         <<let("t", "u8")>>, Operand("var", "a"))
        if == Stmt("if", [cond |-> [left |-> Operand("var", "endif_1"), op |-> "==",
                                    right |-> Operand("num", 0)],
                          then |-> <<set("endif_1", 1)>>, else |-> <<>>,
                          has_else |-> FALSE])
    IN  IF d.op = "ok"
        THEN Program(<<fn("f"), fn("g")>>,
                     <<let("a", "u8"), let("t", "u16"), set("a", 5), set("t", 300)>>)
        ELSE IF d.op = "lohi"
        THEN Program(<<>>, <<let("x", "u16"), let("x_lo", "u8"), set("x", 300),
                             set("x_lo", 7)>>)
        ELSE IF d.op = "start"
        THEN Program(<<>>, <<let("__start", "u8"), set("__start", 1)>>)
        ELSE IF d.op = "gen"
        THEN Program(<<>>, <<let("endif_1", "u8"), if>>)
        ELSE Program(<<fn("f")>>, <<let("f", "u8"), set("f", 2)>>)

\* --- family "nest": func f() { return 7 }; func g() { let: t = u8;
\* t = call f(); return t }; let: r = u8; r = call g(); out(1, r).
\* "direct": main calls f instead of g.
NestOps == {"nested", "direct"}
NestDescs == {Desc("nest", op, <<0>>) : op \in NestOps}

NestProgram(d) ==
    LET site(v, fn) == <<Stmt("let", [name |-> v, vtype |-> "u8"]),
                         Stmt("assign", [target |-> Target("var", v),
                                         rhs |-> Operand("call", [name |-> fn,
                                                                  args |-> <<>>])])>>
        f == FuncDef("f", <<>>, <<>>, Operand("num", 7))
        g == FuncDef("g", <<>>, site("t", "f"), Operand("var", "t"))
        say == Stmt("out", [port |-> Operand("num", 1), val |-> Operand("var", "r")])
    IN  Program(<<f, g>>,
                site("r", IF d.op = "nested" THEN "g" ELSE "f") \o <<say>>)

\* --- family "post": let: x = u16, x = v, then x++ ("++"), x-- ("--") or
\* x++ and x-- ("both"); v at and around the byte boundaries.
PostOps == {"++", "--", "both"}
PostVals == {0, 1, 255, 256, 511, 65280, 65535}
PostDescs == {Desc("post", op, <<v>>) : op \in PostOps, v \in PostVals}

PostProgram(d) ==
    LET step(op) == Stmt("postfix", [target |-> Target("var", "x"), op |-> op])
    IN  Program(<<>>,
            <<Stmt("let", [name |-> "x", vtype |-> "u16"]),
              Stmt("assign", [target |-> Target("var", "x"),
                              rhs |-> Operand("num", d.n[1])])>>
            \o (IF d.op = "both" THEN <<step("++"), step("--")>> ELSE <<step(d.op)>>))

\* The parsed program of a descriptor of a HighLang family: parsed from its
\* text, or given as the parser's tree.
Ast(d) ==
    IF d.fam = "src" THEN ParseText(SrcTexts[d.op])
    ELSE IF d.fam = "ret" THEN POk(RetProgram(d), 0)
    ELSE IF d.fam = "cmp16" THEN POk(Cmp16Program(d), 0)
    ELSE IF d.fam = "cmp8" THEN POk(Cmp8Program(d), 0)
    ELSE IF d.fam = "asg" THEN POk(AsgProgram(d), 0)
    ELSE IF d.fam = "flow" THEN POk(FlowProgram(d), 0)
    ELSE IF d.fam = "col" THEN POk(ColProgram(d), 0)
    ELSE IF d.fam = "nest" THEN POk(NestProgram(d), 0)
    ELSE IF d.fam = "post" THEN POk(PostProgram(d), 0)
    ELSE IF d.fam = "chr" THEN ParseText(ChrText(d))
    ELSE POk(HlProgram(d), 0)

HighDescs ==
    HlDescs \cup SrcDescs \cup RetDescs \cup Cmp16Descs \cup Cmp8Descs \cup AsgDescs
    \cup ChrDescs \cup FlowDescs \cup ColDescs \cup NestDescs \cup PostDescs

\* The assembly text an image is built from: written as such, or the output
\* of minic's main (nothing is written when compilation raises).
Source(d) ==
    IF d \in AsmDescs THEN Ok(Text(d)) ELSE CompileAst(Ast(d))

\* --- raw images: code in the last bytes of memory, reached by a JMP at 0.
\* n[1] is where the code sits; RET at address 3; at address 4 a callee that
\* pops the return address into A:B, pushes it back and returns.
RawDescs ==
    {Desc("raw", op, <<at>>) :
        op \in {"CALL", "CALLP", "PUSH", "LDI", "?", "?34", "?254"},
        at \in (MEM_SIZE - 4) .. (MEM_SIZE - 1)}

RawImage(d) ==
    LET at == d.n[1]
        low == <<21, at % 256, at \div 256, 31, 29, 0, 1, 28, 0, 1, 31>>
        code == IF d.op = "CALL" THEN <<30, 3, 0>>
                ELSE IF d.op = "CALLP" THEN <<30, 4, 0>>
                ELSE IF d.op = "PUSH" THEN <<26, 0>>
                ELSE IF d.op = "LDI" THEN <<1, 0, 5>>
                ELSE IF d.op = "?34" THEN <<34>>
                ELSE IF d.op = "?254" THEN <<254>>
                ELSE <<0>>
    IN  [a \in (0 .. (Len(low) - 1))
               \cup {x \in at .. (at + Len(code) - 1) : x < MEM_SIZE} |->
            IF a < Len(low) THEN low[a + 1] ELSE code[a - at + 1]]

\* ------------------------------------------------------------ specification

\* Before the console thread has made its widgets: console_text is None, no
\* key was pressed (key is the code of the latest press, 0 before any).
NoConsole == [up |-> FALSE, text |-> <<>>, key |-> 0, presses |-> 0]

\* CPU8Bit.__init__ on the image, before run(). input keeps the program
\* text the image came from and the assembler's labels and line addresses.
InitVM(image, d, asm, files) ==
    /\ memory = image
    /\ PC = 0
    /\ SC = STACK_END
    /\ reg = [i \in 0 .. (NREGS - 1) |-> 0]
    /\ Z = 0
    /\ C = 0
    /\ ports = [i \in 0 .. (NPORTS - 1) |-> 0]
    /\ status = "run"
    /\ count = 0
    /\ log = <<>>
    /\ input = [fam |-> d.fam, op |-> d.op, n |-> d.n, lines |-> asm.lines,
                labels |-> asm.labels, addrs |-> asm.addrs, text |-> asm.lines,
                err |-> "", files |-> files]
    /\ console = NoConsole

\* A raw image has no text.
NoText == [lines |-> <<>>, labels |-> [n \in {} |-> 0], addrs |-> <<>>]

\* No image: the compiler or the assembler raised err, and the VM is not
\* started. text is the assembly text the assembler was given, if any.
InitFailed(d, text, e, files) ==
    /\ memory = Load(<<>>)
    /\ PC = 0
    /\ SC = STACK_END
    /\ reg = [i \in 0 .. (NREGS - 1) |-> 0]
    /\ Z = 0
    /\ C = 0
    /\ ports = [i \in 0 .. (NPORTS - 1) |-> 0]
    /\ status = "no image"
    /\ count = 0
    /\ log = <<>>
    /\ input = [fam |-> d.fam, op |-> d.op, n |-> d.n, lines |-> <<>>,
                labels |-> NoText.labels, addrs |-> <<>>, text |-> text, err |-> e,
                files |-> files]
    /\ console = NoConsole

\* An output file: as it was before the run, or with the content written.
OldFile == [written |-> FALSE, content |-> <<>>]
Written(content) == [written |-> TRUE, content |-> content]

\* The output files of a build and the compiler's exit status: asm is the
\* compiler's output file, bin the assembler's.
NoFiles == [asm |-> OldFile, bin |-> OldFile, exit |-> 0]

\* A variant of minic's main that opens the output file before compiling.
minic_main_WritesFirst(src) ==
    IF ~src.ok THEN [NoFiles EXCEPT !.asm = Written(<<>>), !.exit = 1]
    ELSE [NoFiles EXCEPT !.asm = Written(src.v)]

\* minic's main: compile_highlang_text; on an exception the message and
\* sys.exit(1); else outp.write_text(asm) and the exit status 0.
minic_main(src) ==
    IF ~src.ok THEN [NoFiles EXCEPT !.exit = 1]
    ELSE [NoFiles EXCEPT !.asm = Written(src.v)]

\* assemble_file: assemble_text, which may raise; then the bytes are
\* written to bin_path.
assemble_file(files, asm) ==
    IF ~asm.ok THEN files ELSE [files EXCEPT !.bin = Written(asm.out)]

\* compil's main on the text, then the VM on its output
Assembled(d, text, asm, files) ==
    IF ~asm.ok THEN InitFailed(d, text, asm.err, assemble_file(files, asm))
    ELSE InitVM(Load(asm.out), d,
                [lines |-> text, labels |-> asm.labels, addrs |-> asm.addrs],
                assemble_file(files, asm))

\* minic's main (for a HighLang program), compil's main, the VM
Built(d, src) ==
    LET files == IF d.fam \in AsmFams THEN NoFiles ELSE minic_main(src)
    IN  IF ~src.ok THEN InitFailed(d, <<>>, src.err, files)
        ELSE Assembled(d, src.v, assemble_text(src.v), files)

Init ==
    \/ \E d \in AsmDescs \cup HighDescs : Built(d, Source(d))
    \/ \E d \in RawDescs : InitVM(RawImage(d), d, NoText, NoFiles)

\* The console thread is followed in the runs of the family "con"; in the
\* other runs it is not scheduled before the run ends.
ConsoleRuns == input.fam = "con"

\* start_console's thread reaches console_text = tk.Text(...): an empty
\* text widget, and the keyboard buttons after it.
ConsoleStart ==
    /\ ConsoleRuns
    /\ status \in {"run", "halt"}
    /\ ~console.up
    /\ console' = [console EXCEPT !.up = TRUE]
    /\ UNCHANGED <<PC, SC, reg, Z, C, memory, ports, status, count, log, input>>

\* press_code(code) of a keyboard button: ports[KEYBOARD_PORT] = code & 0xFF
KEYBOARD_PORT == 0
KeyCodes == {11, 255}
Press ==
    /\ ConsoleRuns
    /\ status = "run"
    /\ console.up
    /\ console.presses < MaxKeys
    /\ \E code \in KeyCodes :
          /\ ports' = [ports EXCEPT ![KEYBOARD_PORT] = And8(code)]
          /\ console' = [console EXCEPT !.key = And8(code), !.presses = @ + 1]
    /\ UNCHANGED <<PC, SC, reg, Z, C, memory, status, count, log, input>>

Next ==
    \/ ExecLDI \/ ExecLDI16 \/ ExecMOV \/ ExecLDM \/ ExecSTM \/ ExecLDR \/ ExecSTR
    \/ ExecADD \/ ExecADC \/ ExecSUB \/ ExecSBC \/ ExecINC \/ ExecDEC \/ ExecCMP
    \/ ExecAND \/ ExecOR \/ ExecXOR \/ ExecNOT \/ ExecSHL \/ ExecSHR
    \/ ExecJMP \/ ExecJZ \/ ExecJNZ \/ ExecJC \/ ExecJNC
    \/ ExecPUSH \/ ExecPOP \/ ExecPUSH16 \/ ExecPOP16 \/ ExecCALL \/ ExecRET
    \/ ExecIN \/ ExecOUT \/ ExecHALT \/ ExecUnknown
    \/ ConsoleStart \/ Press

Spec == Init /\ [][Next]_vars

\* A step of run()'s loop (an instruction retires, halts or raises), as
\* opposed to a step of the console thread. run() has no wait other than
\* time.sleep(0.02): while the VM can step, it does.
VMStep == Next /\ (log' # log \/ status' # status)
FairSpec == Spec /\ WF_vars(VMStep)

\* ------------------------------------------------------------ properties

\* The entry of the instruction retired last, and of the k-th before it.
Last == log[Len(log)]
Back(k) == log[Len(log) - k]

\* The operand bytes are in memory and name registers the machine has.
OperandsOK ==
    IF Mem(PC) \in {26, 27} THEN FetchOK(1) /\ RegOK(Op(1))
    ELSE IF Mem(PC) \in {28, 29} THEN FetchOK(2) /\ RegOK(Op(1)) /\ RegOK(Op(2))
    ELSE IF Mem(PC) = 30 THEN FetchOK(2)
    ELSE TRUE

\* C1: SC stays within STACK_START..STACK_END in every state; a push (PUSH,
\* PUSH16, CALL) tried with SC <= STACK_START and a pop (POP, POP16, RET)
\* tried with SC >= STACK_END end the run with an exception and leave SC
\* where it was: the stack overflow / underflow error whenever the operands
\* could be read.
C1_StackPointerRange ==
    /\ [](SC \in STACK_START .. STACK_END)
    /\ [][/\ (status = "run" /\ Mem(PC) \in {26, 28, 30} /\ SC <= STACK_START)
                => /\ status' \notin {"run", "halt"}
                   /\ SC' = SC
                   /\ OperandsOK => status' = "StackOverflow"
          /\ (status = "run" /\ Mem(PC) \in {27, 29, 31} /\ SC >= STACK_END)
                => /\ status' \notin {"run", "halt"}
                   /\ SC' = SC
                   /\ OperandsOK => status' = "StackUnderflow"]_vars

\* A PUSH16 on a stack with one free byte: the run has ended with SC on
\* STACK_START and the high byte stored there, above 30 bytes pushed before.
C1_Witness ==
    /\ status = "StackOverflow"
    /\ SC = STACK_START
    /\ Len(log) > 30
    /\ Mem(STACK_START) # Mem(STACK_START + 1)

\* C2: PUSH r; POP r' leaves in r' the byte r held and SC where it was before
\* the PUSH; PUSH16 HI, LO; POP16 HI', LO' with HI' # LO' leaves in HI' and
\* LO' what HI and LO held, and SC where it was.
C2_StackRoundTrip ==
    Len(log) >= 3 =>
        LET p == Back(2)
            a == Back(1)
            b == Last
        IN  /\ (a.op = "PUSH" /\ b.op = "POP")
                => /\ b.reg[b.args[1]] = p.reg[a.args[1]]
                   /\ b.SC = p.SC
            /\ (a.op = "PUSH16" /\ b.op = "POP16" /\ b.args[1] # b.args[2])
                => /\ b.reg[b.args[1]] = p.reg[a.args[1]]
                   /\ b.reg[b.args[2]] = p.reg[a.args[2]]
                   /\ b.SC = p.SC

\* PUSH16 A, B; POP16 C, D on a stack that is not empty, with A # B.
C2_Witness ==
    /\ Len(log) >= 3
    /\ Back(1).op = "PUSH16" /\ Back(1).args = <<0, 1>>
    /\ Last.op = "POP16" /\ Last.args = <<2, 3>>
    /\ Last.reg[2] = 1 /\ Last.reg[3] = 86
    /\ Last.SC < STACK_END

\* C3: CALL L at address P with RET the first instruction at L: after the
\* RET, PC = (P + 3) mod 65536, and SC, the registers and the flags are what
\* they were before the CALL.
C3_CallRetRoundTrip ==
    Len(log) >= 3 =>
        LET p == Back(2)
            a == Back(1)
            b == Last
        IN  (a.op = "CALL" /\ b.op = "RET" /\ b.at = a.args[1])
                => /\ b.PC = (a.at + 3) % 65536
                   /\ b.SC = p.SC
                   /\ b.reg = p.reg
                   /\ b.Z = p.Z
                   /\ b.C = p.C

\* CALL; RET with Z set, registers loaded and bytes already on the stack.
C3_Witness ==
    /\ Len(log) >= 3
    /\ Back(1).op = "CALL" /\ Last.op = "RET"
    /\ Last.PC = Back(1).at + 3
    /\ Last.Z = 1 /\ Last.reg[1] = 86
    /\ Last.SC < STACK_END

\* C4: after PUSH16 HI, LO, mem[SC] = reg[LO] and mem[SC + 1] = reg[HI];
\* after CALL at P, mem[SC] and mem[SC + 1] are the low and high byte of the
\* 16-bit P + 3; POP16 HI, LO right after the CALL (HI # LO) loads
\* reg[HI]:reg[LO] = P + 3; and CALL; POP16 HI, LO; PUSH16 HI, LO; RET ends
\* with PC = P + 3.
C4_SharedLayout ==
    /\ (Len(log) >= 1 /\ SC = Last.SC /\ Last.op = "PUSH16")
          => /\ Mem(SC) = reg[Last.args[2]]
             /\ Mem(SC + 1) = reg[Last.args[1]]
    /\ (Len(log) >= 1 /\ SC = Last.SC /\ Last.op = "CALL")
          => /\ Mem(SC) = ((Last.at + 3) % 65536) % 256
             /\ Mem(SC + 1) = ((Last.at + 3) % 65536) \div 256
    /\ (Len(log) >= 2 /\ Back(1).op = "CALL" /\ Last.op = "POP16"
            /\ Last.args[1] # Last.args[2])
          => Last.reg[Last.args[1]] * 256 + Last.reg[Last.args[2]]
                = (Back(1).at + 3) % 65536
    /\ (Len(log) >= 4 /\ Back(3).op = "CALL" /\ Back(2).op = "POP16"
            /\ Back(2).args[1] # Back(2).args[2]
            /\ Back(1).op = "PUSH16" /\ Back(1).args = Back(2).args
            /\ Last.op = "RET")
          => Last.PC = (Back(3).at + 3) % 65536

\* CALL; POP16 G, H; PUSH16 G, H; RET has run and came back behind the CALL.
C4_Witness ==
    /\ Len(log) >= 4
    /\ Back(3).op = "CALL" /\ Back(2).op = "POP16" /\ Back(2).args = <<6, 7>>
    /\ Back(1).op = "PUSH16" /\ Last.op = "RET"
    /\ Last.PC = Back(3).at + 3
    /\ Last.reg[7] = Last.PC

\* C5: ADD r1, r2 writes (a + b) mod 256 and sets C = 1 iff a + b >= 256 and
\* Z = 1 iff (a + b) mod 256 = 0; SUB r1, r2 writes (a - b) mod 256 and sets
\* C = 1 iff a < b and Z = 1 iff a = b; INC and DEC do the same with b = 1.
C5_FlagLaws ==
    Len(log) >= 2 =>
        LET p == Back(1)
            e == Last
            r1 == e.args[1]
            a == p.reg[r1]
            b == IF e.op \in {"INC", "DEC"} THEN 1 ELSE p.reg[e.args[2]]
        IN  /\ e.op \in {"ADD", "INC"}
                => /\ e.reg[r1] = (a + b) % 256
                   /\ e.C = IF a + b >= 256 THEN 1 ELSE 0
                   /\ e.Z = IF (a + b) % 256 = 0 THEN 1 ELSE 0
            /\ e.op \in {"SUB", "DEC"}
                => /\ e.reg[r1] = (a - b) % 256
                   /\ e.C = IF a < b THEN 1 ELSE 0
                   /\ e.Z = IF a = b THEN 1 ELSE 0

\* SUB of 255 from 128 in two different registers: a borrow, 129 written.
C5_Witness ==
    /\ Len(log) >= 2
    /\ Last.op = "SUB" /\ Last.args[1] # Last.args[2]
    /\ Back(1).reg[Last.args[1]] = 128 /\ Back(1).reg[Last.args[2]] = 255
    /\ Last.reg[Last.args[1]] = 129 /\ Last.C = 1 /\ Last.Z = 0

\* C6: ADC r1, r2 computes a + b + C and SBC r1, r2 computes a - b - C, with
\* C and Z from that result; with X and Y in four distinct registers, ADD on
\* the low bytes then ADC on the high bytes leaves (X + Y) mod 65536 and
\* C = 1 iff X + Y >= 65536, and SUB then SBC leaves (X - Y) mod 65536 and
\* C = 1 iff X < Y.
C6_CarryChain ==
    /\ Len(log) >= 2 =>
        LET p == Back(1)
            e == Last
            a == p.reg[e.args[1]]
            b == p.reg[e.args[2]]
        IN  /\ e.op = "ADC"
                => /\ e.reg[e.args[1]] = (a + b + p.C) % 256
                   /\ e.C = IF a + b + p.C >= 256 THEN 1 ELSE 0
                   /\ e.Z = IF (a + b + p.C) % 256 = 0 THEN 1 ELSE 0
            /\ e.op = "SBC"
                => /\ e.reg[e.args[1]] = (a - b - p.C) % 256
                   /\ e.C = IF a - b - p.C < 0 THEN 1 ELSE 0
                   /\ e.Z = IF (a - b - p.C) % 256 = 0 THEN 1 ELSE 0
    /\ Len(log) >= 3 =>
        LET p == Back(2)
            lo == Back(1)
            hi == Last
            X == p.reg[hi.args[1]] * 256 + p.reg[lo.args[1]]
            Y == p.reg[hi.args[2]] * 256 + p.reg[lo.args[2]]
            V == hi.reg[hi.args[1]] * 256 + hi.reg[lo.args[1]]
            distinct == Cardinality({lo.args[1], lo.args[2],
                                     hi.args[1], hi.args[2]}) = 4
        IN  /\ (lo.op = "ADD" /\ hi.op = "ADC" /\ distinct)
                => /\ V = (X + Y) % 65536
                   /\ hi.C = IF X + Y >= 65536 THEN 1 ELSE 0
            /\ (lo.op = "SUB" /\ hi.op = "SBC" /\ distinct)
                => /\ V = (X - Y) % 65536
                   /\ hi.C = IF X < Y THEN 1 ELSE 0

\* 0x01FF + 0xFF01: the low bytes carry into the high bytes, which carry out.
C6_Witness ==
    /\ Len(log) >= 3
    /\ Back(1).op = "ADD" /\ Last.op = "ADC"
    /\ Back(1).C = 1 /\ Last.C = 1
    /\ Back(2).reg[0] = 1 /\ Back(2).reg[1] = 255
    /\ Back(2).reg[2] = 255 /\ Back(2).reg[3] = 1
    /\ Last.reg[0] = 1 /\ Last.reg[1] = 0

\* C7: CMP r1, r2 sets Z and C to what SUB r1, r2 computes from the same
\* registers, advances PC by 3, and changes no register, no memory byte, no
\* port and not SC.
C7_CmpFrame ==
    [][(status = "run" /\ count < MaxSteps /\ Mem(PC) = 14 /\ FetchOK(2)
            /\ RegOK(Op(1)) /\ RegOK(Op(2)))
         => /\ status' = "run"
            /\ Z' = SubRes(reg[Op(1)], reg[Op(2)]).Z
            /\ C' = SubRes(reg[Op(1)], reg[Op(2)]).C
            /\ PC' = (PC + 3) % 65536
            /\ UNCHANGED <<reg, memory, ports, SC>>]_vars

\* CMP of 128 with 255 has run: a borrow, and 128 is still there.
C7_Witness ==
    /\ Len(log) >= 2
    /\ Last.op = "CMP" /\ Last.args[1] # Last.args[2]
    /\ Back(1).reg[Last.args[1]] = 128 /\ Back(1).reg[Last.args[2]] = 255
    /\ reg[Last.args[1]] = 128 /\ C = 1 /\ Z = 0

\* The handlers that assign neither flag, by the name they print.
FlagFree ==
    {"LDI", "LDI16", "MOV", "LDM", "STM", "LDR", "STR", "JMP", "JZ", "JNZ",
     "JC", "JNC", "PUSH", "POP", "PUSH16", "POP16", "CALL", "RET", "OUT",
     "HALT", "?"}

\* C8: LDI, LDI16, MOV, LDM, STM, LDR, STR, the jumps, PUSH, POP, PUSH16,
\* POP16, CALL, RET, OUT, HALT and unknown opcodes leave Z and C as they
\* were; AND, OR, XOR, NOT and IN leave C as it was and set Z = 1 iff the
\* byte they wrote is 0.
C8_FlagFrame ==
    Len(log) >= 2 =>
        LET p == Back(1)
            e == Last
        IN  /\ e.op \in FlagFree => e.Z = p.Z /\ e.C = p.C
            /\ e.op \in {"AND", "OR", "XOR", "NOT", "IN"}
                => /\ e.C = p.C
                   /\ e.Z = IF e.reg[e.args[1]] = 0 THEN 1 ELSE 0

\* IN of a non-zero port with Z = 1 and C = 1 before it: Z cleared, C kept.
C8_Witness ==
    /\ Len(log) >= 2
    /\ Last.op = "IN" /\ Back(1).Z = 1 /\ Back(1).C = 1
    /\ Last.Z = 0 /\ Last.C = 1

\* What each operand of a statement is, in the order the text gives them:
\* a register, a register pair, an 8-bit value or a 16-bit value.
OperandKinds(ln) ==
    IF ln.ins \in {"HALT", "RET"} THEN <<>>
    ELSE IF ln.ins = "LDI" THEN <<"r", "v8">>
    ELSE IF ln.ins = "LDI16" THEN <<"pair", "v16">>
    ELSE IF ln.ins = "LDM" THEN <<"r", "v16">>
    ELSE IF ln.ins = "STM" THEN <<"v16", "r">>
    ELSE IF ln.ins \in {"LDR", "STR"} THEN <<"r", "r", "r">>
    ELSE IF ln.ins \in {"INC", "DEC", "NOT", "SHL", "SHR", "PUSH", "POP"}
    THEN <<"r">>
    ELSE IF ln.ins \in {"JMP", "JZ", "JNZ", "JC", "JNC", "CALL"} THEN <<"v16">>
    ELSE IF ln.ins = "IN" THEN <<"r", "v8">>
    ELSE IF ln.ins = "OUT" THEN <<"v8", "r">>
    ELSE IF ln.ins \in {"PUSH16", "POP16"} /\ Len(ln.args) = 1 THEN <<"pair">>
    ELSE <<"r", "r">>

\* The operands a statement names: the index of each register (both of a
\* pair, HI first), the value of each number or label.
RECURSIVE SrcOperands(_, _, _)
SrcOperands(kinds, args, labels) ==
    IF kinds = <<>> THEN <<>>
    ELSE (IF Head(kinds) = "r" THEN <<parse_reg(Head(args)).v>>
          ELSE IF Head(kinds) = "pair" THEN parse_reg_pair(Head(args)).v
          ELSE IF Head(kinds) = "v8"
          THEN <<parse_value(Head(args), labels).v % 256>>
          ELSE <<parse_value(Head(args), labels).v % 65536>>)
         \o SrcOperands(Tail(kinds), Tail(args), labels)

\* C9: whenever the VM retires the instruction at the address of an
\* assembled statement, the handler that ran is the one of the statement's
\* mnemonic, the operands it decoded from the bytes after the opcode are the
\* statement's operands in order (16-bit values from LO then HI), and unless
\* it branched PC has advanced by the number of bytes assemble_text emitted
\* for the statement; CALL pushes the address that many bytes behind it.
C9_AsmVmAgree ==
    Len(log) >= 1 =>
        \A i \in 1 .. Len(input.lines) :
            LET e == Last
                ln == input.lines[i]
                src == SrcOperands(OperandKinds(ln), ln.args, input.labels)
                next == (e.at + Len(Encode(ln, input.labels).v)) % 65536
            IN  (input.addrs[i] = e.at /\ ln.ins \notin {"", "$"})
                    => /\ e.op = ln.ins
                       /\ IF e.op = "CALL"
                          THEN e.args = <<src[1], next>> /\ e.PC = src[1]
                          ELSE IF e.op \in {"JMP", "JZ", "JNZ", "JC", "JNC"}
                          THEN \/ e.args = src /\ e.PC = src[1]
                               \/ e.args = <<>> /\ e.PC = next
                          ELSE IF e.op = "RET" THEN e.args = <<>>
                          ELSE IF e.op = "HALT" THEN e.args = <<>> /\ next = e.PC + 1
                          ELSE e.args = src /\ e.PC = next

\* STM 65520, A has run: an address whose two bytes differ, then a register.
C9_Witness ==
    /\ Len(log) >= 1
    /\ Last.op = "STM" /\ Last.args = <<65520, 0>>
    /\ \E i \in 1 .. Len(input.lines) :
          /\ input.addrs[i] = Last.at
          /\ input.lines[i].ins = "STM"
          /\ input.lines[i].args = <<Num(65520), Id("A")>>
    /\ Mem(65520) = reg[0] /\ reg[0] = 1

\* C10: in a compiled program whose main is r = call f(a1..an) the run never
\* ends in an exception; the instruction that retires at the address after
\* the CALL is the caller's POP or POP16 of the return value, and once it has
\* retired SC is back at its value before the first argument push, the
\* return address has been consumed by RET, and each parameter's storage
\* holds the argument in its position.
C10_CallProtocol ==
    input.fam = "hl" =>
        LET call == CHOOSE i \in 1 .. Len(input.lines) : input.lines[i].ins = "CALL"
            after == (input.addrs[call] + 3) % 65536
            v == input.n[1]
            par(name) == Mem(input.labels["__f__" \o name])
        IN  /\ status \in {"run", "halt"}
            /\ (Len(log) >= 1 /\ Last.at = after) =>
                  /\ Last.op \in {"POP", "POP16"}
                  /\ Last.SC = STACK_END
                  /\ Len(log) >= 2 /\ Back(1).op = "RET" /\ Back(1).PC = after
                  /\ v = 1 => par("a") = input.n[2]
                  /\ v = 2 => par("a") = input.n[2] /\ par("b") = input.n[3]
                  /\ v = 3 => /\ par("a_hi") = input.n[2]
                              /\ par("a_lo") = input.n[3]
                              /\ par("b") = input.n[3]

\* C11: scenario S4. The program func inc(n:u8){ return n+1 } with
\* let: x=u8, x = call inc(41), halt (as printed, and with one statement per
\* line) compiles and assembles, runs without an exception, and at HALT the
\* storage byte of x holds 42 and SC is STACK_END.
C11_ScenarioS4 ==
    (input.fam = "src" /\ input.op \in {"S4", "S4lines"}) =>
        /\ input.err = ""
        /\ status \in {"run", "halt"}
        /\ status = "halt" => Mem(input.labels["x"]) = 42 /\ SC = STACK_END

\* C12: return-width consistency. A program with one call t = call f(),
\* placed in main, in a function after f, in a function before f or in f
\* itself, compiles iff the width of t equals the width inferred from f's
\* return expression.
C12_ReturnWidth ==
    input.fam = "ret" => (input.err = "" <=> input.n[1] = input.n[2])

\* C13: 16-bit compare. For if (left op right) { out(1, 1) } else { out(1, 2) }
\* with 16-bit operands of values L and R, each a u16 variable, a constant
\* or a register pair, the program compiles, runs without an exception, and
\* at HALT port 1 holds 1 if the unsigned comparison L op R is true (the
\* code fell through) and 2 if it is false (it jumped to false_label).
C13_U16Compare ==
    input.fam = "cmp16" =>
        /\ input.err = ""
        /\ status \in {"run", "halt"}
        /\ status = "halt" =>
              ports[1] = IF Holds(input.op, input.n[3], input.n[4]) THEN 1 ELSE 2

\* C14: 8-bit compare. For if (left op right) { out(1, 1) } else { out(1, 2) }
\* with byte operands of values l and r before the statement, each a
\* constant, a char literal, a u8 variable, reg[X] (A and B included),
\* mem[...] or in(port), the program compiles, runs without an exception,
\* and at HALT port 1 holds 1 if the unsigned comparison l op r is true and
\* 2 if it is false (the code jumped to false_label).
C14_U8Compare ==
    input.fam = "cmp8" =>
        /\ input.err = ""
        /\ status \in {"run", "halt"}
        /\ status = "halt" =>
              ports[1] = IF Holds(input.op, input.n[3], input.n[4]) THEN 1 ELSE 2

\* C15: scenario S5 with one statement per line. The program
\*   let: a=u16 / let: b=u16 / a=300 / b=256 /
\*   if (a>b) { out(1,1) } else { out(1,0) }
\* compiles, assembles, runs without an exception, and at HALT port 1 holds 1.
C15_ScenarioS5Lines ==
    (input.fam = "src" /\ input.op = "S5lines") =>
        /\ input.err = ""
        /\ status \in {"run", "halt"}
        /\ status = "halt" => ports[1] = 1

\* C15, as stated: the same for the scenario text on one line, its
\* statements separated by semicolons.
C15_ScenarioS5 ==
    (input.fam = "src" /\ input.op = "S5") =>
        /\ input.err = ""
        /\ status \in {"run", "halt"}
        /\ status = "halt" => ports[1] = 1

\* the line-per-statement program has halted after the OUT of its
\* then-branch
C15_Witness ==
    /\ input.fam = "src" /\ input.op = "S5lines"
    /\ status = "halt"
    /\ ports[1] = 1

\* C16: assembler length determinism for mnemonics. For every statement of
\* the text given to the assembler whose mnemonic is not the data directive
\* and whose operand list pass 2 accepts, estimate_len (pass 1) equals the
\* number of bytes pass 2 appends for the statement.
C16_LengthsAgree ==
    \A i \in 1 .. Len(input.text) :
        LET ln == input.text[i]
            bytes == Encode(ln, input.labels)
        IN  (ln.ins \notin {"", "$"} /\ bytes.ok) => estimate_len(ln) = Len(bytes.v)

\* an LDI16 with a two-register-name pair and a label operand was assembled (five
\* bytes in both passes) and the program has run to its HALT
C16_Witness ==
    /\ input.fam = "len" /\ input.op = "LDI16" /\ input.n = <<5>>
    /\ input.err = ""
    /\ Encode(input.text[1], input.labels).ok
    /\ Len(Encode(input.text[1], input.labels).v) = 5
    /\ status = "halt"

\* The bytes of a "$" directive as the widths are stated: one byte for a
\* number in 0..0xFF, LO then HI for any other number and for every label.
RECURSIVE StatedData(_, _)
StatedData(args, labels) ==
    IF args = <<>> THEN <<>>
    ELSE LET t == Head(args)
             b == IF t.k = "id" THEN emit_u16_lohi(labels[t.s])
                  ELSE IF t.v < 0 \/ t.v > 255 THEN emit_u16_lohi(t.v)
                  ELSE emit_u8(t.v)
         IN  b \o StatedData(Tail(args), labels)

\* C17: data directive widths. For every "$" directive pass 2 accepts, the
\* bytes emitted are one byte per number in 0..0xFF and two bytes LO, HI per
\* other number and per label (whatever its address), and the length pass 1
\* computes for the directive equals the number of bytes pass 2 emits.
C17_DataWidths ==
    \A i \in 1 .. Len(input.text) :
        LET ln == input.text[i]
            bytes == DataBytes(ln.args, input.labels)
        IN  (ln.ins = "$" /\ bytes.ok) =>
                /\ bytes.v = StatedData(ln.args, input.labels)
                /\ estimate_len(ln) = Len(bytes.v)

\* C18: label addresses are true byte offsets. For every text that
\* assembles, each labels[name] equals the number of bytes the statements
\* before the label's line put into the byte vector, that is the index of
\* the first byte of the first statement at or after the label.
C18_LabelOffsets ==
    input.err = "" =>
        \A i \in 1 .. Len(input.lines) :
            \A k \in 1 .. Len(input.lines[i].labels) :
                input.labels[input.lines[i].labels[k]]
                    = Len(Pass2Of(input.lines, 1, i - 1, input.labels).v)

\* C19: register-pair operand forms. An LDI16, PUSH16 or POP16 on the
\* registers X (HIGH) and Y (LOW) assembles whether the pair is written as
\* one token XY or as two tokens X, Y, and in both forms the image holds the
\* opcode, then the index of X, then the index of Y (then, for LDI16, the
\* immediate LO, HI), so the two forms give the same bytes.
C19_PairForms ==
    input.fam = "pair" =>
        /\ input.err = ""
        /\ Mem(0) = OP[input.op] /\ Mem(1) = input.n[2] /\ Mem(2) = input.n[3]
        /\ input.op = "LDI16" => Mem(3) = 300 % 256 /\ Mem(4) = 300 \div 256

\* C20: operand range validation. A statement with an 8-bit immediate or
\* port outside 0..255, a 16-bit address or immediate outside 0..65535, or a
\* register token whose index is not in 0..7 makes the assembler raise an
\* error, and no byte vector is returned.
C20_RangeChecked ==
    input.fam = "range" => input.err # "" /\ status = "no image"

\* ------------------------------------------------------------ C21

\* The places of the label definitions of a text: line i, j-th label of it.
LabelDefs(lines) ==
    UNION {{<<i, j>> : j \in 1 .. Len(lines[i].labels)} : i \in 1 .. Len(lines)}
DefinedTimes(lines, n) ==
    Cardinality({p \in LabelDefs(lines) : lines[p[1]].labels[p[2]] = n})
DefinedNames(lines) == {lines[p[1]].labels[p[2]] : p \in LabelDefs(lines)}

\* The operands of a line that pass 2 gives to parse_value.
ValueArgs(ln) ==
    IF ln.ins = "$" THEN 1 .. Len(ln.args)
    ELSE IF ln.ins \in {"LDI", "LDI16", "LDM", "IN"} THEN {2} \cap (1 .. Len(ln.args))
    ELSE IF ln.ins \in {"STM", "OUT", "JMP", "JZ", "JNZ", "JC", "JNC", "CALL"}
    THEN {1} \cap (1 .. Len(ln.args))
    ELSE {}
\* The words a text refers to as labels.
Referred(lines) ==
    UNION {{ln.args[k].s : k \in {k \in ValueArgs(ln) : ln.args[k].k = "id"}} :
           ln \in {lines[i] : i \in 1 .. Len(lines)}}

\* C21: assemble_text returns a result only if every label is defined exactly
\* once and every word used as a value is a defined label (the table it
\* returns holds exactly the defined names); a text that defines a name twice
\* or refers to an undefined name gives an error and no image.
C21_LabelTable ==
    LET lines == input.text
    IN  /\ (status # "no image" /\ lines # <<>>) =>
            /\ \A n \in DefinedNames(lines) : DefinedTimes(lines, n) = 1
            /\ Referred(lines) \subseteq DOMAIN input.labels
            /\ DOMAIN input.labels = DefinedNames(lines)
        /\ ((\E n \in DefinedNames(lines) : DefinedTimes(lines, n) > 1)
            \/ ~(Referred(lines) \subseteq DefinedNames(lines))) =>
            /\ status = "no image"
            /\ input.err # ""

\* A reference to an undefined label has stopped the assembler.
C21_Witness ==
    /\ input.fam = "lbl"
    /\ input.op = "undef"
    /\ Referred(input.text) = {"nowhere"}
    /\ status = "no image"
    /\ input.err = "unknown label"

\* ------------------------------------------------------------ C22

\* The step from the last address wraps PC: the byte there is no opcode, so
\* PC goes from 0xFFFF to 0.
WrapStep ==
    /\ status = "run"
    /\ PC = MEM_SIZE - 1
    /\ Mem(PC) \notin KnownOpcodes
    /\ count' = count + 1

\* C22: the execution loop ends when HALT is executed or when the program
\* counter wraps past address 0xFFFF: after the step that wraps PC the run
\* is over.
C22_EndsAtWrap == [][WrapStep => status' # "run"]_vars

\* ------------------------------------------------------------ C23

\* A step of run() on a byte that is no opcode.
UnknownStep ==
    /\ status = "run"
    /\ Mem(PC) \notin KnownOpcodes
    /\ count' = count + 1

\* C23: when the byte at PC is not a defined opcode, the step sets PC to
\* (PC + 1) mod 65536, leaves the registers, the flags, SP, memory and the
\* ports unchanged, and the run goes on with the next fetch.
C23_UnknownOpcode ==
    [][UnknownStep =>
        /\ PC' = (PC + 1) % MEM_SIZE
        /\ UNCHANGED <<reg, Z, C, SC, memory, ports>>
        /\ status' = "run"]_vars

\* The byte 254 at the last address was stepped over, and PC is 0.
C23_Witness ==
    /\ status = "run"
    /\ log # <<>>
    /\ Last.op = "?"
    /\ Last.args = <<254>>
    /\ Last.at = MEM_SIZE - 1
    /\ PC = 0

\* ------------------------------------------------------------ C24

\* A step of run() (not of the console): an instruction retires or raises.
InstrStep == status = "run" /\ (count' # count \/ status' # status)

\* IN r, port and OUT port, r with both operand bytes in memory.
INStep == InstrStep /\ Mem(PC) = 32 /\ FetchOK(2)
OUTStep == InstrStep /\ Mem(PC) = 33 /\ FetchOK(2)
ValidPort(p) == p \in 0 .. (NPORTS - 1)

\* C24: for a port in 0..7, IN r, port sets reg[r] = ports[port] and Z = 1
\* iff that value is 0, with C unchanged, and OUT port, r sets
\* ports[port] = reg[r] with no flag change; for a port operand outside
\* 0..7 both raise a fatal error before changing any register, flag or port.
C24_PortIO ==
    [][/\ (INStep /\ ValidPort(Op(2)) /\ RegOK(Op(1))) =>
            /\ reg' = [reg EXCEPT ![Op(1)] = ports[Op(2)]]
            /\ Z' = (IF ports[Op(2)] = 0 THEN 1 ELSE 0)
            /\ UNCHANGED <<C, ports>>
            /\ status' = "run"
       /\ (OUTStep /\ ValidPort(Op(1)) /\ RegOK(Op(2))) =>
            /\ ports' = [ports EXCEPT ![Op(1)] = reg[Op(2)]]
            /\ UNCHANGED <<Z, C, reg>>
            /\ status' = "run"
       /\ ((INStep /\ ~ValidPort(Op(2))) \/ (OUTStep /\ ~ValidPort(Op(1)))) =>
            /\ status' = "InvalidPort"
            /\ UNCHANGED <<reg, Z, C, ports, PC, SC, memory>>]_vars

\* An IN from a valid port has read a non-zero value and cleared Z.
C24_Witness ==
    /\ status = "run"
    /\ log # <<>>
    /\ Last.op = "IN"
    /\ ValidPort(Last.args[2])
    /\ reg[Last.args[1]] = ports[Last.args[2]]
    /\ reg[Last.args[1]] # 0
    /\ Z = 0

\* ------------------------------------------------------------ C25

\* IN r, 0 after at least one key press.
KeyRead ==
    /\ INStep
    /\ Op(2) = KEYBOARD_PORT
    /\ RegOK(Op(1))
    /\ console.presses > 0

\* C25: under every interleaving of key presses and guest instructions,
\* IN r, 0 returns the code of the latest key press made no later than the
\* read; a guest OUT 0, r does not change what a later IN r, 0 returns.
C25_KeyboardPort == [][KeyRead => reg'[Op(1)] = console.key]_vars

\* ------------------------------------------------------------ C26

\* C26: after every retired instruction, whatever the progress of the
\* console thread, the sixteen bytes at 0xFFF0..0xFFFF are rendered through
\* CHAR_MAP and handed to the console: the console shows the rendered text
\* buffer as it is after the instruction.
C26_TextRefresh == [][count' = count + 1 => console'.text = Rendered(memory', 0)]_vars

\* ------------------------------------------------------------ C27

\* The assignment of the program has sides of different widths.
WidthMismatch ==
    /\ input.fam = "asg"
    /\ AsgRhsWidth[input.n[2]] # AsgTargetWidth[input.n[1]]

\* C27: for every assignment target = rhs, if the width of the right-hand
\* side (a literal above 0xFF is 16-bit) differs from the width of the
\* target (register 8, register pair 16, variable as declared, mem[...] 8),
\* compilation fails with an error and no assembly is emitted.
C27_WidthChecked ==
    WidthMismatch => (status = "no image" /\ input.err # "" /\ input.text = <<>>)

\* ------------------------------------------------------------ C28

\* What the console shows of a text buffer whose first byte is c (the other
\* fifteen are 0 and show nothing).
Shown(c) == Rendered([a \in {MEM_SIZE - TEXT_SIZE} |-> c], 0)

\* The compiler's table and the VM's are one table, and no glyph has two codes.
SharedBijection ==
    /\ CHAR_MAP = VM_CHAR_MAP
    /\ \A a, b \in DOMAIN CHAR_MAP : CHAR_MAP[a] = CHAR_MAP[b] => a = b

\* The program of the glyph of code n[1], written in the given form,
\* compiles and runs, and at HALT x holds that code, which the text buffer
\* shows as the glyph.
RoundTrip(form) ==
    (input.fam = "chr" /\ input.op = form) =>
        /\ input.err = ""
        /\ status \in {"run", "halt"}
        /\ status = "halt" =>
              LET c == Mem(input.labels["x"])
              IN  /\ c = input.n[1]
                  /\ VM_CHAR_MAP[c] = CHAR_MAP[input.n[1]]
                  /\ CHAR_MAP[input.n[1]] # "" => Shown(c) = <<CHAR_MAP[input.n[1]]>>

\* C28: character literal round-trip with one statement per line. CHAR_MAP
\* is a bijection between its codes and glyphs, the compiler's copy and the
\* VM's are the same table, and for every non-empty glyph g of CHAR_MAP the
\* program  let: x = u8 / x = 'g'  compiles and runs, and stores in x the
\* code c with CHAR_MAP[c] = g, which the text buffer renders back as g.
C28_CharRoundTripLines ==
    input.fam = "chr" =>
        /\ SharedBijection
        /\ input.n[1] # 0 => RoundTrip("lines")

\* C28, as stated: the same for every glyph of CHAR_MAP and the program
\* text on one line, let: x = u8; x = 'g'.
C28_CharRoundTrip ==
    input.fam = "chr" =>
        /\ SharedBijection
        /\ RoundTrip("one")

\* The program of the glyph U+0411 (code 37), one statement per line, has
\* halted with 37 in x.
C28_Witness ==
    /\ input.fam = "chr" /\ input.op = "lines" /\ input.n = <<37>>
    /\ CHAR_MAP[37] = "U+0411"
    /\ status = "halt"
    /\ Mem(input.labels["x"]) = 37
    /\ Shown(37) = <<"U+0411">>

\* ------------------------------------------------------------ C29

\* The compiler was run and raised; the assembler was run and raised.
CompileFailed == input.fam \notin AsmFams \cup {"raw"} /\ input.err # "" /\ input.text = <<>>
AssemblyFailed == input.err # "" /\ input.text # <<>>

\* C29: no partial output on static errors. If compilation or assembly
\* fails, the stage's output file is left exactly as it was before the run,
\* and the compiler exits non-zero; an output file is written only by a
\* stage that succeeded, with the stage's whole result.
C29_NoPartialOutput ==
    /\ CompileFailed =>
          /\ input.files.asm = OldFile
          /\ input.files.bin = OldFile
          /\ input.files.exit # 0
          /\ status = "no image"
    /\ AssemblyFailed =>
          /\ input.files.bin = OldFile
          /\ status = "no image"
    /\ input.files.asm.written =>
          /\ input.files.exit = 0
          /\ input.files.asm.content = input.text
    /\ input.files.bin.written =>
          /\ input.err = ""
          /\ status # "no image"
          /\ count = 0 => memory = Load(input.files.bin.content)

\* A width error in an assignment has ended the compiler: nothing written,
\* exit status 1.
C29_Witness ==
    /\ input.fam = "asg" /\ input.n = <<1, 4>>
    /\ CompileFailed
    /\ input.files = [asm |-> OldFile, bin |-> OldFile, exit |-> 1]

\* ------------------------------------------------------------ C30

\* The S2 program has executed HALT after exactly three DEC instructions,
\* with A = 0, Z = 1 and PC at the HALT opcode (line 4 of the text).
S2Done ==
    /\ status = "halt"
    /\ Cardinality({i \in 1 .. Len(log) : log[i].op = "DEC"}) = 3
    /\ reg[0] = 0
    /\ Z = 1
    /\ PC = input.addrs[4]
    /\ Mem(PC) = 255

\* C30: scenario S2. The program LDI A, 3 / L: DEC A / JNZ L / HALT loaded
\* at address 0 eventually executes HALT, after exactly three DEC
\* instructions and with A = 0, Z = 1 and PC at the HALT opcode; it never
\* halts in another way.
C30_ScenarioS2 ==
    /\ (input.fam = "s2") ~> S2Done
    /\ []((input.fam = "s2" /\ status # "run") => S2Done)

\* The loop has ended at the HALT of address 8.
C30_Witness ==
    /\ input.fam = "s2"
    /\ S2Done
    /\ PC = 8
    /\ Mem(0) = 1

\* ------------------------------------------------------------ C31

Bytes == 0 .. 255
Words == 0 .. (MEM_SIZE - 1)

Reemit(bytes) ==
    [k \in 1 .. ((Len(bytes) + DataPerLine - 1) \div DataPerLine) |->
        Line(<<>>, "$",
             [j \in 1 .. (IF k * DataPerLine <= Len(bytes) THEN DataPerLine
                          ELSE Len(bytes) - (k - 1) * DataPerLine) |->
                 Num(bytes[(k - 1) * DataPerLine + j])])]

\* The image of the build, as the assembler returned it.
Image == input.files.bin.content

\* C32: for every successfully assembled program, its byte vector written
\* as "$" directives (one byte value per token) assembles to exactly the
\* same byte vector, and assembling the program's text again gives the same
\* bytes and the same label table.
C32_Idempotent ==
    (input.files.bin.written /\ log = <<>>) =>
        /\ assemble_text(Reemit(Image)).ok
        /\ assemble_text(Reemit(Image)).out = Image
        /\ assemble_text(input.text).ok
        /\ assemble_text(input.text).out = Image
        /\ assemble_text(input.text).labels = input.labels

\* The nine bytes of the loop program come back from two "$" lines.
C32_Witness ==
    /\ input.fam = "s2"
    /\ log = <<>>
    /\ Image = <<1, 0, 3, 13, 0, 23, 3, 0, 255>>
    /\ Len(Reemit(Image)) = 2
    /\ assemble_text(Reemit(Image)).out = Image

\* ------------------------------------------------------------ C33

\* How often the run has executed out(p, ...), and how often a condition
\* was evaluated (each evaluation of an 8-bit condition is one CMP).
Outs(p) == Cardinality({i \in 1 .. Len(log) : log[i].op = "OUT" /\ log[i].args[1] = p})
Evals == Cardinality({i \in 1 .. Len(log) : log[i].op = "CMP"})

\* The condition of the program's if, on the values it is evaluated with.
FlowCond ==
    IF input.op = "ifreg" THEN 11 < 10 + input.n[1] ELSE input.n[1] < FlowLimit

\* if: at most one of the blocks has run, never the wrong one; at HALT
\* exactly the right one has run once, and the statement after the if once.
IfLowered ==
    /\ Outs(1) + Outs(3) <= 1
    /\ Evals <= 1
    /\ Outs(1) = 1 => FlowCond
    /\ Outs(3) = 1 => ~FlowCond /\ input.op # "ifonly"
    /\ Outs(2) = 1 => Outs(1) + Outs(3) = (IF input.op = "ifonly" /\ ~FlowCond THEN 0 ELSE 1)
    /\ status = "halt" => Outs(2) = 1 /\ Evals = 1

\* while (x < n) with x counting up from 0: the body has run once for each
\* evaluation that held, and the statement after the loop runs after the
\* first evaluation that did not (the (n+1)-th).
WhileLowered ==
    /\ Outs(1) <= input.n[1]
    /\ Outs(1) <= Evals
    /\ Evals <= Outs(1) + 1
    /\ Outs(2) = 1 => Outs(1) = input.n[1] /\ Evals = input.n[1] + 1
    /\ status = "halt" => Outs(2) = 1 /\ Mem(input.labels["x"]) = input.n[1]

\* C33: control-flow lowering. For a compiled if (cond) { A } else { B }
\* exactly one of A and B runs, A iff cond holds when evaluated, and control
\* then continues after the statement; for a compiled while (cond) { B },
\* cond is evaluated before every iteration, B runs once per evaluation in
\* which cond holds, and control leaves the loop the first time it is false.
C33_ControlFlow ==
    input.fam = "flow" =>
        /\ input.err = ""
        /\ status \in {"run", "halt"}
        /\ IF input.op = "while" THEN WhileLowered ELSE IfLowered

\* ------------------------------------------------------------ C34

\* The program was accepted by the compiler: minic wrote an assembly text.
Compiled == input.fam \notin AsmFams \cup {"raw"} /\ input.text # <<>>

\* C34: the assembly text the compiler emits for a program it accepts
\* defines every label exactly once: the labels of distinct variables, of
\* the functions, __start and the generated control-flow labels are
\* pairwise distinct (so the assembler accepts the text and no two
\* variables share a storage byte).
C34_LabelsDistinct ==
    Compiled =>
        /\ \A n \in DefinedNames(input.text) : DefinedTimes(input.text, n) = 1
        /\ input.err # "duplicate label"

\* ------------------------------------------------------------ C35

\* C35: in a program whose main calls g and g calls f (or main calls f),
\* every callee returns to its own caller: the run does not stop inside a
\* callee, and when it has stopped, main has continued after its CALL, has
\* stored the value f returned (7) and has reached HALT.
C35_NestedReturn ==
    (input.fam = "nest" /\ status # "run") =>
        /\ status = "halt"
        /\ ports[1] = 7
        /\ SC = STACK_END

\* ------------------------------------------------------------ C36

\* The register indices the assembler encodes for the operands of a line.
RegIndices(ln) ==
    LET kinds == OperandKinds(ln)
        at(k) == IF kinds[k] = "r" /\ parse_reg(ln.args[k]).ok
                 THEN {parse_reg(ln.args[k]).v}
                 ELSE IF kinds[k] = "pair" /\ parse_reg_pair(ln.args[k]).ok
                 THEN {parse_reg_pair(ln.args[k]).v[1], parse_reg_pair(ln.args[k]).v[2]}
                 ELSE {}
    IN  IF ln.ins \in {"", "$"} THEN {}
        ELSE UNION {at(k) : k \in (1 .. Len(kinds)) \cap (1 .. Len(ln.args))}

\* C36: every register operand of the assembly the compiler emits,
\* the pair that saves the return address included, assembles to an index
\* of the register file (0 .. NREGS - 1), and no instruction of a compiled
\* program stops the machine with an index outside the register file.
C36_RegistersInFile ==
    Compiled =>
        /\ \A i \in 1 .. Len(input.text) :
               RegIndices(input.text[i]) \subseteq 0 .. (NREGS - 1)
        /\ status # "IndexError"

\* ------------------------------------------------------------ C37

\* A step in which a stack instruction raises stack overflow or underflow.
StackFault ==
    /\ status = "run"
    /\ status' \in {"StackOverflow", "StackUnderflow"}

\* C37: a stack instruction (PUSH, POP, PUSH16, POP16, CALL, RET) that
\* raises stack overflow or underflow leaves SP, the registers, the flags,
\* PC and every memory byte as they were before the instruction started.
C37_AtomicStackFault ==
    [][StackFault => UNCHANGED <<SC, reg, Z, C, PC, memory>>]_vars

\* ------------------------------------------------------------ C38

\* The opcodes whose operands are an address only: JMP, JZ, JNZ, JC, JNC, CALL.
AddressOpcodes == (21 .. 25) \cup {30}
\* The k-th operand byte when operand addresses wrap like PC.
WrappedOp(k) == Mem((PC + k) % MEM_SIZE)

\* C38: operand bytes are read inside memory, their addresses wrapping
\* modulo MEM_SIZE, so an instruction in the last bytes of memory never
\* accesses memory out of bounds: a run stops on an index error only when
\* an operand byte names a register or port outside 0 .. 7, never in an
\* instruction whose operands are an address only.
C38_FetchInMemory ==
    status = "IndexError" =>
        /\ Mem(PC) \notin AddressOpcodes
        /\ \E k \in 1 .. 4 : WrappedOp(k) \notin 0 .. (NREGS - 1)

\* ------------------------------------------------------------ C39

\* The 16-bit value of the u16 variable x: its bytes at x_lo and x_hi.
ValueOfX == Mem(input.labels["x_lo"]) + 256 * Mem(input.labels["x_hi"])

\* C39: the code compiled for x++ on a u16 variable holding v stores
\* (v + 1) mod 65536 in x's lo and hi bytes, the code for x-- stores
\* (v - 1) mod 65536, and x++ followed by x-- restores v, at the byte
\* boundaries 0x00FF, 0x0100, 0xFFFF and 0 as elsewhere.
C39_Postfix16 ==
    (input.fam = "post" /\ status = "halt") =>
        ValueOfX = IF input.op = "++" THEN (input.n[1] + 1) % MEM_SIZE
                   ELSE IF input.op = "--" THEN (input.n[1] + MEM_SIZE - 1) % MEM_SIZE
                   ELSE input.n[1]

\* x = 0xFFFF, x++ has run to HALT with x = 0
C39_Witness ==
    /\ input.fam = "post"
    /\ input.op = "++"
    /\ input.n = <<65535>>
    /\ status = "halt"
    /\ ValueOfX = 0
    /\ \E i \in 1 .. Len(log) : log[i].op = "INC" /\ log[i].args[1] = 0

\* ------------------------------------------------------------ C40

\* The instructions retired so far that are PUSH; a run whose only stack
\* instructions so far are PUSH.
Pushes == Cardinality({i \in 1 .. Len(log) : log[i].op = "PUSH"})
OnlyPushes ==
    \A i \in 1 .. Len(log) : log[i].op \notin {"POP", "PUSH16", "POP16", "CALL", "RET"}

\* C40: the stack holds 32 bytes: from the initial SP = STACK_END, 32
\* single-byte PUSH instructions succeed and only the 33rd raises stack
\* overflow: a PUSH that overflows in a run that has only pushed comes
\* after 32 retired PUSH instructions, one per address of the stack area.
C40_StackCapacity ==
    (status = "StackOverflow" /\ Mem(PC) = 26 /\ OnlyPushes) =>
        /\ Pushes = STACK_END - STACK_START + 1
        /\ Pushes = 32

====
